---- MODULE Spec2Model ----
(***************************************************************************)
(* DreamSight AI frontend: the hexagram decoder of HexagramVisual.tsx and  *)
(* the API client (apiFetch, apiFetchWithAuth, dreamApi, ApiException);    *)
(* getToken of the auth context; DreamForm; the history tab and the        *)
(* password change of the profile page; the quota functions of the         *)
(* database migration; AuthScreen; the state of AuthProvider; and the      *)
(* journal of JournalingModal.  Each specification follows one component   *)
(* and leaves the others at rest.                                          *)
(*                                                                         *)
(* Text is modelled as a sequence of characters.  An ASCII character is    *)
(* the one-character string itself; a Vietnamese letter is one character   *)
(* written in VNI ("a2" is a-grave, "u7" is u-horn, "o75" is o-horn with   *)
(* dot below, "d9" is d-stroke); a trigram symbol is written by its code   *)
(* point ("U+2630" .. "U+2637").                                           *)
(***************************************************************************)
EXTENDS Integers, Sequences, FiniteSets, TLC

VARIABLES
    structure,      \* HexagramVisual: the structure prop (a character sequence)
    memo,           \* HexagramVisual: the useMemo cell, [deps, value]
    allLines,       \* HexagramVisual: the six rendered lines, top to bottom
    hexPc,          \* HexagramVisual: "pending" | "rendered" | "threw"
    hexHistory,     \* HexagramVisual: what each committed render showed, in order
    API_SECRET_KEY, \* api client: the configured client key ("" when unset)
    apiPc,          \* api client: where the current call stands
    apiCall,        \* api client: the current call (function, operation, options)
    apiToken,       \* api client: what getAccessToken resolved to
    apiRequests,    \* api client: the HTTP requests sent by the current call
    apiResponse,    \* api client: the HTTP response (or transport failure)
    apiOutcome,     \* api client: what the caller got: a value or a thrown error
    apiLog,         \* api client: console.error lines of the current call
    getTokenPc,     \* AuthProvider.getToken: where the current call stands
    currentSession, \* AuthProvider.getToken: the session read by getSession()
    dateNow,        \* AuthProvider.getToken: Date.now() at the expiry check (ms)
    refreshCalls,   \* AuthProvider.getToken: refreshSession() calls of this call
    refreshData,    \* AuthProvider.getToken: what refreshSession() settled with
    getTokenResult, \* AuthProvider.getToken: what the caller got
    dreamText,      \* DreamForm: the text of the textarea
    result,         \* DreamForm: the analysis shown (JSON null when none)
    isLoading,      \* DreamForm: a submission is under way
    formError,      \* DreamForm: the error message shown (null when none)
    formRequests,   \* DreamForm: analyzeTriangle requests not yet settled
    formCaught,     \* DreamForm: how the last awaited analyzeTriangle ended
    user,           \* ProfilePage: the signed-in user of the auth context
    activeTab,      \* ProfilePage: "history" | "settings"
    dreams,         \* ProfilePage: the history list shown
    isLoadingHistory, \* ProfilePage: the history spinner
    historyError,   \* ProfilePage: the history error message (null when none)
    historyRuns,    \* ProfilePage: fetchHistory runs not yet finished
    CURRENT_DATE,   \* database: the date of the current transaction
    guest_usage,    \* database: table guest_usage, ip_address -> row
    profiles,       \* database: table profiles, id -> usage columns
    quotaGranted,   \* database: (ip, date) -> calls of check_guest_quota that returned TRUE
    quotaLast,      \* database: the last call of check_guest_quota and its row before
    passwords,      \* ProfilePage: the password fields {current, new, confirm}
    isChangingPassword, \* ProfilePage: a password change is under way
    passwordMessage, \* ProfilePage: the message under the password fields
    updateUserCalls, \* ProfilePage: updateUser() calls not yet settled
    email,          \* AuthScreen: the email field
    password,       \* AuthScreen: the password field
    routerPath,     \* AuthScreen: the route last pushed to the router
    isSignUp,       \* AuthScreen: the form is in sign-up mode
    screenLoading,  \* AuthScreen: isLoading, a submission is under way
    screenError,    \* AuthScreen: error, the message shown (null when none)
    success,        \* AuthScreen: the success message shown (null when none)
    screenCalls,    \* AuthScreen: signIn/signUp calls not yet settled
    authUser,       \* AuthProvider: user
    authSession,    \* AuthProvider: session
    authIsLoading,  \* AuthProvider: isLoading
    authInit,       \* AuthProvider: initializeAuth, "pending" | "done"
    signOutCalls,   \* AuthProvider: signOut() calls awaiting the provider
    authCommits,    \* AuthProvider: the state of each committed render, in order
    journalText,    \* JournalingModal: text
    isSaved,        \* JournalingModal: the saved mark of the button
    isJournalingOpen, \* DreamForm: the modal is open
    dreamJournal,   \* localStorage: the item stored under "dreamJournal"
    journalTimers,  \* JournalingModal: setTimeout callbacks not yet run
    journalClock    \* JournalingModal: the clock read by new Date()

hexVars == <<structure, memo, allLines, hexPc, hexHistory>>
apiVars == <<API_SECRET_KEY, apiPc, apiCall, apiToken, apiRequests,
             apiResponse, apiOutcome, apiLog>>
tokenVars == <<getTokenPc, currentSession, dateNow, refreshCalls, refreshData,
               getTokenResult>>
formVars == <<dreamText, result, isLoading, formError, formRequests, formCaught>>
profileVars == <<user, activeTab, dreams, isLoadingHistory, historyError,
                 historyRuns>>
quotaVars == <<CURRENT_DATE, guest_usage, profiles, quotaGranted, quotaLast>>
passwordVars == <<passwords, isChangingPassword, passwordMessage, updateUserCalls>>
screenVars == <<email, password, routerPath, isSignUp, screenLoading, screenError,
                success, screenCalls>>
authVars == <<authUser, authSession, authIsLoading, authInit, signOutCalls,
              authCommits>>
journalVars == <<journalText, isSaved, isJournalingOpen, dreamJournal,
                 journalTimers, journalClock>>
moreVars == <<passwordVars, screenVars, authVars, journalVars>>
\* getToken, DreamForm, the history tab and the database.
coreVars == <<tokenVars, formVars, profileVars, quotaVars>>
\* Everything but the hexagram component and the API client's own state.
restVars == <<coreVars, moreVars>>
vars == <<hexVars, apiVars, restVars>>

null == "null"
undefined == "undefined"
\* An absent sequence value (a match that is null, an undefined array): no
\* match and no table entry is ever empty, so the empty sequence stands for it.
NoSeq == <<>>

(***************************************************************************)
(* Characters                                                              *)
(***************************************************************************)
AsciiLower == <<"a","b","c","d","e","f","g","h","i","j","k","l","m",
                "n","o","p","q","r","s","t","u","v","w","x","y","z">>
AsciiUpper == <<"A","B","C","D","E","F","G","H","I","J","K","L","M",
                "N","O","P","Q","R","S","T","U","V","W","X","Y","Z">>
\* The Vietnamese letters that occur in the component's tables and patterns.
VietLower == <<"a2","a3","a5","a61","a62","d9","o6","o61","o1","o72","o71",
               "o75","u1","u7","u73">>
VietUpper == <<"A2","A3","A5","A61","A62","D9","O6","O61","O1","O72","O71",
               "O75","U1","U7","U73">>
LowerLetters == AsciiLower \o VietLower
UpperLetters == AsciiUpper \o VietUpper
Digits == {"0","1","2","3","4","5","6","7","8","9"}

Range(f) == {f[i] : i \in DOMAIN f}

\* String.prototype.toLowerCase / toUpperCase, one character at a time.
RECURSIVE CaseTable(_, _)
CaseTable(from, to) ==
    IF from = <<>> THEN <<>>
    ELSE (Head(from) :> Head(to)) @@ CaseTable(Tail(from), Tail(to))
ToLowerTable == CaseTable(UpperLetters, LowerLetters)
ToUpperTable == CaseTable(LowerLetters, UpperLetters)
toLowerCaseChar(c) == IF c \in DOMAIN ToLowerTable THEN ToLowerTable[c] ELSE c
toUpperCaseChar(c) == IF c \in DOMAIN ToUpperTable THEN ToUpperTable[c] ELSE c
toLowerCase(s) == [i \in DOMAIN s |-> toLowerCaseChar(s[i])]
toUpperCase(s) == [i \in DOMAIN s |-> toUpperCaseChar(s[i])]

\* The regular expression classes \w and \s of a pattern without the u flag:
\* \w is ASCII letters, digits and underscore only.
WordChars == Range(AsciiLower) \cup Range(AsciiUpper) \cup Digits \cup {"_"}
SpaceChars == {" ", "\t", "\n", "U+00A0"}

(***************************************************************************)
(* HexagramVisual.tsx: tables                                              *)
(***************************************************************************)
HEAVEN == "U+2630"
LAKE == "U+2631"
FIRE == "U+2632"
THUNDER == "U+2633"
WIND == "U+2634"
WATER == "U+2635"
MOUNTAIN == "U+2636"
EARTH == "U+2637"
TrigramSymbols == {HEAVEN, LAKE, FIRE, THUNDER, WIND, WATER, MOUNTAIN, EARTH}

\* TRIGRAM_LINES: each trigram's three lines, TRUE = solid, FALSE = broken.
TRIGRAM_LINES_TABLE ==
    [s \in TrigramSymbols |->
        CASE s = HEAVEN   -> <<TRUE, TRUE, TRUE>>
          [] s = EARTH    -> <<FALSE, FALSE, FALSE>>
          [] s = WATER    -> <<FALSE, TRUE, FALSE>>
          [] s = FIRE     -> <<TRUE, FALSE, TRUE>>
          [] s = THUNDER  -> <<FALSE, FALSE, TRUE>>
          [] s = WIND     -> <<TRUE, TRUE, FALSE>>
          [] s = MOUNTAIN -> <<FALSE, FALSE, TRUE>>
          [] s = LAKE     -> <<FALSE, TRUE, TRUE>>]

\* TRIGRAM_LINES[key]: a key that is not an own property reads undefined.
TRIGRAM_LINES(key) ==
    IF key \in DOMAIN TRIGRAM_LINES_TABLE THEN TRIGRAM_LINES_TABLE[key] ELSE NoSeq

\* TRIGRAM_NAMES, in source order: <<name, symbol>>.
TRIGRAM_NAMES_TABLE == <<
    << <<"c","a2","n">>, HEAVEN >>,
    << <<"t","r","o72","i">>, HEAVEN >>,
    << <<"h","e","a","v","e","n">>, HEAVEN >>,
    << <<"k","h","o6","n">>, EARTH >>,
    << <<"d9","a61","t">>, EARTH >>,
    << <<"e","a","r","t","h">>, EARTH >>,
    << <<"k","h","a3","m">>, WATER >>,
    << <<"n","u7","o71","c">>, WATER >>,
    << <<"w","a","t","e","r">>, WATER >>,
    << <<"l","y">>, FIRE >>,
    << <<"l","u73","a">>, FIRE >>,
    << <<"f","i","r","e">>, FIRE >>,
    << <<"c","h","a61","n">>, THUNDER >>,
    << <<"s","a61","m">>, THUNDER >>,
    << <<"t","h","u","n","d","e","r">>, THUNDER >>,
    << <<"t","o61","n">>, WIND >>,
    << <<"g","i","o1">>, WIND >>,
    << <<"w","i","n","d">>, WIND >>,
    << <<"c","a61","n">>, MOUNTAIN >>,
    << <<"n","u1","i">>, MOUNTAIN >>,
    << <<"m","o","u","n","t","a","i","n">>, MOUNTAIN >>,
    << <<"d9","o","a2","i">>, LAKE >>,
    << <<"d9","a62","m">>, LAKE >>,
    << <<"l","a","k","e">>, LAKE >> >>

\* What a plain object literal inherits from Object.prototype under keys
\* that \w+ can capture and toLowerCase leaves alone.
ObjectPrototypeKeys == { <<"c","o","n","s","t","r","u","c","t","o","r">>,
                         <<"_","_","p","r","o","t","o","_","_">> }
InheritedValue(key) ==
    IF key = <<"c","o","n","s","t","r","u","c","t","o","r">>
    THEN "function Object" ELSE "Object.prototype"

\* TRIGRAM_NAMES[key]
TRIGRAM_NAMES(key) ==
    IF \E i \in DOMAIN TRIGRAM_NAMES_TABLE : TRIGRAM_NAMES_TABLE[i][1] = key
    THEN TRIGRAM_NAMES_TABLE[CHOOSE i \in DOMAIN TRIGRAM_NAMES_TABLE :
                                TRIGRAM_NAMES_TABLE[i][1] = key][2]
    ELSE IF key \in ObjectPrototypeKeys THEN InheritedValue(key)
    ELSE undefined

(***************************************************************************)
(* HexagramVisual.tsx: parseTrigramSymbols                                 *)
(***************************************************************************)
UpperMarker == <<"t","h","u7","o75","n","g">>
LowerMarker == <<"h","a5">>

\* structure.match(/[symbols]/g): every trigram symbol, in order of appearance
\* (NoSeq, for null, when there is none).
MatchSymbols(s) ==
    LET found == SelectSeq(s, LAMBDA c : c \in TrigramSymbols)
    IN  IF found = <<>> THEN NoSeq ELSE found

\* Case-insensitive comparison of the i flag: both sides canonicalised.
SameLetter(a, b) == toUpperCaseChar(a) = toUpperCaseChar(b)

\* The literal marker matches s at position i, ignoring case.
MarkerAt(s, i, marker) ==
    /\ i + Len(marker) - 1 <= Len(s)
    /\ \A k \in 1..Len(marker) : SameLetter(s[i + k - 1], marker[k])

\* The first position at or after i whose character is outside class
\* (Len(s) + 1 when the run reaches the end): a greedy + or *.
RunEnd(s, i, class) ==
    LET stops == {k \in i..Len(s) : s[k] \notin class}
    IN  IF stops = {} THEN Len(s) + 1
        ELSE CHOOSE k \in stops : \A j \in stops : k <= j

\* /marker\s+(\w+)/i matches s starting at position i.
NameMatchAt(s, i, marker) ==
    /\ MarkerAt(s, i, marker)
    /\ LET ws == i + Len(marker)
           w  == RunEnd(s, ws, SpaceChars)
       IN  /\ w > ws
           /\ RunEnd(s, w, WordChars) > w

\* structure.match(/marker\s+(\w+)/i)?.[1]: the captured word of the
\* leftmost match, NoSeq (for undefined) when nothing matches.
MatchName(s, marker) ==
    LET starts == {i \in 1..Len(s) : NameMatchAt(s, i, marker)}
    IN  IF starts = {} THEN NoSeq
        ELSE LET i == CHOOSE k \in starts : \A j \in starts : k <= j
                 w == RunEnd(s, i + Len(marker), SpaceChars)
             IN  SubSeq(s, w, RunEnd(s, w, WordChars) - 1)

\* name ? (TRIGRAM_NAMES[name] || null) : null
ResolveName(name) ==
    IF name = NoSeq THEN null
    ELSE LET v == TRIGRAM_NAMES(toLowerCase(name))
         IN  IF v = undefined THEN null ELSE v

\* Variant: lower taken from the last symbol instead of the second.
parseTrigramSymbols_lastSymbol(s) ==
    LET symbols == MatchSymbols(s)
    IN  IF symbols # NoSeq /\ Len(symbols) >= 2
        THEN [upper |-> symbols[1], lower |-> symbols[Len(symbols)]]
        ELSE [upper |-> ResolveName(MatchName(s, UpperMarker)),
              lower |-> ResolveName(MatchName(s, LowerMarker))]

\* Variant: the name fallback fills the slots only when both phrases match.
parseTrigramSymbols_bothOrNone(s) ==
    LET symbols == MatchSymbols(s)
        upperName == MatchName(s, UpperMarker)
        lowerName == MatchName(s, LowerMarker)
    IN  IF symbols # NoSeq /\ Len(symbols) >= 2
        THEN [upper |-> symbols[1], lower |-> symbols[2]]
        ELSE IF upperName # NoSeq /\ lowerName # NoSeq
        THEN [upper |-> ResolveName(upperName), lower |-> ResolveName(lowerName)]
        ELSE [upper |-> null, lower |-> null]

\* Variant: a lone symbol taken for the upper slot.
parseTrigramSymbols_loneSymbolUpper(s) ==
    LET symbols == MatchSymbols(s)
    IN  IF symbols # NoSeq /\ Len(symbols) >= 2
        THEN [upper |-> symbols[1], lower |-> symbols[2]]
        ELSE IF symbols # NoSeq
        THEN [upper |-> symbols[1],
              lower |-> ResolveName(MatchName(s, LowerMarker))]
        ELSE [upper |-> ResolveName(MatchName(s, UpperMarker)),
              lower |-> ResolveName(MatchName(s, LowerMarker))]

parseTrigramSymbols(s) ==
    LET symbols == MatchSymbols(s)
    IN  IF symbols # NoSeq /\ Len(symbols) >= 2
        THEN [upper |-> symbols[1], lower |-> symbols[2]]
        ELSE [upper |-> ResolveName(MatchName(s, UpperMarker)),
              lower |-> ResolveName(MatchName(s, LowerMarker))]

(***************************************************************************)
(* HexagramVisual.tsx: the component                                       *)
(***************************************************************************)
reverse(l) == [i \in 1..Len(l) |-> l[Len(l) + 1 - i]]

\* upper ? TRIGRAM_LINES[upper] : [true, true, true]
LinesOf(ref) == IF ref # null THEN TRIGRAM_LINES(ref) ELSE <<TRUE, TRUE, TRUE>>

\* Variant: the two trigrams concatenated without reversing them.
buildLineSequence_noReverse(upperLines, lowerLines) == upperLines \o lowerLines

\* [...upperLines.slice().reverse(), ...lowerLines.slice().reverse()]
buildLineSequence(upperLines, lowerLines) ==
    reverse(upperLines) \o reverse(lowerLines)

\* Variant: the memo computed at the first render and never again.
useMemoParse_noDeps(cell, s) ==
    IF cell.set THEN cell
    ELSE [set |-> TRUE, deps |-> s, value |-> parseTrigramSymbols(s)]

\* useMemo(() => parseTrigramSymbols(structure), [structure])
useMemoParse(cell, s) ==
    IF cell.set /\ cell.deps = s THEN cell
    ELSE [set |-> TRUE, deps |-> s, value |-> parseTrigramSymbols(s)]

\* The memo cell before the first render.
NoMemo == [set |-> FALSE, deps |-> <<>>, value |-> [upper |-> null, lower |-> null]]

\* One render of HexagramVisual.  .slice() on an undefined lines entry
\* throws a TypeError and nothing is rendered.
Render ==
    /\ hexPc = "pending"
    /\ \E cell \in {useMemoParse(memo, structure)} :
          LET upperLines == LinesOf(cell.value.upper)
              lowerLines == LinesOf(cell.value.lower)
          IN  /\ memo' = cell
              /\ IF upperLines = NoSeq \/ lowerLines = NoSeq
                 THEN /\ hexPc' = "threw"
                      /\ allLines' = allLines
                      /\ hexHistory' = hexHistory
                 ELSE /\ hexPc' = "rendered"
                      /\ allLines' = buildLineSequence(upperLines, lowerLines)
                      /\ hexHistory' = Append(hexHistory,
                                              [structure |-> structure,
                                               upper |-> cell.value.upper,
                                               lower |-> cell.value.lower,
                                               lines |-> allLines'])
    /\ UNCHANGED structure
    /\ UNCHANGED <<apiVars, restVars>>

\* The number of renders followed in one run.
MaxRenders == 3

\* The parent renders the mounted component again with a structure prop of
\* its choice; the hook state of the last committed render is kept.
NewStructure(s) ==
    /\ hexPc = "rendered"
    /\ Len(hexHistory) < MaxRenders
    /\ structure' = s
    /\ hexPc' = "pending"
    /\ UNCHANGED <<memo, allLines, hexHistory>>
    /\ UNCHANGED <<apiVars, restVars>>

(***************************************************************************)
(* API client: ApiException                                                *)
(***************************************************************************)
\* JavaScript truthiness of a string-or-undefined value.
Truthy(v) == v \notin {undefined, null, ""}

\* new ApiException(error): super(error.error || error.detail || "Unknown error")
ApiException(error) ==
    [name       |-> "ApiException",
     message    |-> IF Truthy(error.error) THEN error.error
                    ELSE IF Truthy(error.detail) THEN error.detail
                    ELSE "Unknown error",
     statusCode |-> error.status_code,
     detail     |-> error.detail]

isApiKeyError(e) == e.statusCode = 403

\* Variant: session errors classified together with forbidden ones.
isAuthError_orForbidden(e) == e.statusCode \in {401, 403}

isAuthError(e) == e.statusCode = 401

isRateLimitError(e) == e.statusCode = 429

(***************************************************************************)
(* API client: headers                                                     *)
(***************************************************************************)
\* An object with no properties; spreading undefined adds nothing either.
NoHeaders == <<>>

\* { ...a, ...b }: the properties of a, then those of b over them.
Spread(a, b) == b @@ a

\* Variant: the client key left out of the base headers.
buildBaseHeaders_noKey == "Content-Type" :> "application/json"

buildBaseHeaders ==
    IF Truthy(API_SECRET_KEY)
    THEN Spread("Content-Type" :> "application/json", "X-API-Key" :> API_SECRET_KEY)
    ELSE "Content-Type" :> "application/json"

\* apiFetch: { ...buildBaseHeaders(), ...options.headers }
apiFetchHeaders(optionHeaders) == Spread(buildBaseHeaders, optionHeaders)

\* ...(token && { Authorization: `Bearer ${token}` })
AuthorizationHeader(token) ==
    IF Truthy(token) THEN "Authorization" :> ("Bearer " \o token) ELSE NoHeaders

\* Variant: the Authorization header built whether or not there is a token.
apiFetchWithAuthHeaders_alwaysBearer(token, optionHeaders) ==
    Spread(Spread(buildBaseHeaders, "Authorization" :> ("Bearer " \o token)),
           optionHeaders)

\* apiFetchWithAuth: { ...buildBaseHeaders(), ...(token && {...}), ...options.headers }
apiFetchWithAuthHeaders(token, optionHeaders) ==
    Spread(Spread(buildBaseHeaders, AuthorizationHeader(token)), optionHeaders)

(***************************************************************************)
(* supabase.ts: getAccessToken                                             *)
(***************************************************************************)
\* What supabase.auth.getSession() can do: resolve with a session, resolve
\* with none, or throw.
SessionLookups ==
    {[kind |-> "session", access_token |-> "token-1"],
     [kind |-> "session", access_token |-> "token-2"],
     [kind |-> "none"],
     [kind |-> "throws"]}

\* data.session?.access_token ?? null, and null from the catch block.
getAccessToken(lookup) ==
    IF lookup.kind = "session" THEN lookup.access_token ELSE null

(***************************************************************************)
(* API client: responses                                                   *)
(***************************************************************************)
Statuses == {200, 201, 400, 401, 403, 404, 429, 500, 503}
StatusTexts == {"", "Reason"}
FieldValues == {undefined, "", "text"}

\* A response body: text that is not JSON, the JSON value null, or a JSON
\* object with optional detail and message fields.
Bodies ==
    {[kind |-> "text"], [kind |-> "null"]}
    \cup {[kind |-> "object", detail |-> d, message |-> m] :
             d \in FieldValues, m \in FieldValues}

Responses ==
    {[kind |-> "response", status |-> s, statusText |-> st, body |-> b] :
        s \in Statuses, st \in StatusTexts, b \in Bodies}

\* response.ok
ok(response) == response.status \in 200..299

\* return response.json(): the parsed body, or the rejection of json().
ReturnJson(response) ==
    IF response.body.kind = "text"
    THEN [kind |-> "thrown", error |-> [name |-> "SyntaxError"]]
    ELSE [kind |-> "returned", value |-> response.body]

\* The try block of the error branch: reading a property of the JSON value
\* null throws like an unparsable body does, and both land in the catch.
TryBlockThrows(response) == response.body.kind \in {"text", "null"}

\* Variant: detail falling back on the body's message field.
ErrorData_detailOrMessage(response) ==
    IF TryBlockThrows(response)
    THEN [error       |-> "HTTP " \o ToString(response.status) \o ": "
                              \o response.statusText,
          status_code |-> response.status,
          detail      |-> undefined]
    ELSE [error       |-> IF Truthy(response.body.detail) THEN response.body.detail
                          ELSE IF Truthy(response.body.message)
                          THEN response.body.message
                          ELSE "Request failed",
          status_code |-> response.status,
          detail      |-> IF response.body.detail # undefined
                          THEN response.body.detail
                          ELSE response.body.message]

\* errorData, from the try block or from the catch block.
ErrorData(response) ==
    IF TryBlockThrows(response)
    THEN [error       |-> "HTTP " \o ToString(response.status) \o ": "
                              \o response.statusText,
          status_code |-> response.status,
          detail      |-> undefined]
    ELSE [error       |-> IF Truthy(response.body.detail) THEN response.body.detail
                          ELSE IF Truthy(response.body.message)
                          THEN response.body.message
                          ELSE "Request failed",
          status_code |-> response.status,
          detail      |-> response.body.detail]

\* Variant: no catch around the body parse, whose failure reaches the caller.
FetchOutcome_noCatch(response) ==
    IF ok(response) THEN ReturnJson(response)
    ELSE IF response.body.kind = "text"
    THEN [kind |-> "thrown", error |-> [name |-> "SyntaxError"]]
    ELSE [kind |-> "thrown", error |-> ApiException(ErrorData(response))]

\* What apiFetch does with a response.
FetchOutcome(response) ==
    IF ok(response) THEN ReturnJson(response)
    ELSE [kind |-> "thrown", error |-> ApiException(ErrorData(response))]

\* errorData of apiFetchWithAuth, which has its own copy of the try and catch
\* blocks.
ErrorDataWithAuth(response) ==
    IF TryBlockThrows(response)
    THEN [error       |-> "HTTP " \o ToString(response.status) \o ": "
                              \o response.statusText,
          status_code |-> response.status,
          detail      |-> undefined]
    ELSE [error       |-> IF Truthy(response.body.detail) THEN response.body.detail
                          ELSE IF Truthy(response.body.message)
                          THEN response.body.message
                          ELSE "Request failed",
          status_code |-> response.status,
          detail      |-> response.body.detail]

\* The console.error lines of apiFetchWithAuth's error branch.
AuthErrorLog(response) ==
    IF ok(response) THEN <<>>
    ELSE LET exception == ApiException(ErrorDataWithAuth(response))
         IN  IF isApiKeyError(exception) THEN <<"API Key error">>
             ELSE IF isAuthError(exception) THEN <<"Auth error">>
             ELSE IF isRateLimitError(exception) THEN <<"Rate limit exceeded">>
             ELSE <<>>

\* Variant: the authenticated wrapper rewording the error it has classified.
FetchWithAuthOutcome_rewordsClassified(response) ==
    IF ok(response) THEN ReturnJson(response)
    ELSE LET exception == ApiException(ErrorDataWithAuth(response))
         IN  [kind |-> "thrown",
              error |-> IF isAuthError(exception)
                        THEN [exception EXCEPT !.message = "Token expired or invalid"]
                        ELSE exception]

\* What apiFetchWithAuth does with a response: the exception is built,
\* classified for the log, and thrown as built.
FetchWithAuthOutcome(response) ==
    IF ok(response) THEN ReturnJson(response)
    ELSE LET exception == ApiException(ErrorDataWithAuth(response))
         IN  [kind |-> "thrown", error |-> exception]

\* What `await fetch(url, config)` can reject with before any response.
FetchRejections ==
    {[name |-> "TypeError", message |-> "Failed to fetch"],
     [name |-> "TypeError", message |-> "NetworkError when attempting to fetch resource."]}

\* The ways the awaited fetch settles: a response, or a rejection.
Rejected(error) == [kind |-> "failed", error |-> error]

\* A rejection of an awaited promise outside any try block leaves the async
\* function as the same error.
Rethrow(error) == [kind |-> "thrown", error |-> error]

\* Variant: apiFetch wrapping a rejected fetch into its structured error.
apiFetch_wrapsRejection(settled) ==
    IF settled.kind = "failed"
    THEN [kind |-> "thrown",
          error |-> ApiException([error |-> settled.error.message,
                                  status_code |-> 0, detail |-> undefined])]
    ELSE FetchOutcome(settled)

\* apiFetch from the point where the awaited fetch settles.
apiFetch(settled) ==
    IF settled.kind = "failed" THEN Rethrow(settled.error)
    ELSE FetchOutcome(settled)

\* apiFetchWithAuth from the point where the awaited fetch settles.
apiFetchWithAuth(settled) ==
    IF settled.kind = "failed" THEN Rethrow(settled.error)
    ELSE FetchWithAuthOutcome(settled)

\* dreamApi.healthCheck from the point where the awaited fetch settles.
healthCheck(settled) ==
    IF settled.kind = "failed" THEN Rethrow(settled.error)
    ELSE ReturnJson(settled)

\* The function of the current call, resumed with the settled fetch.
Resume(fn, settled) ==
    CASE fn = "apiFetch" -> apiFetch(settled)
      [] fn = "apiFetchWithAuth" -> apiFetchWithAuth(settled)
      [] fn = "fetch" -> healthCheck(settled)

(***************************************************************************)
(* API client: dreamApi and the calls                                      *)
(***************************************************************************)
\* The operations of dreamApi: the wrapper each uses, endpoint and method.
dreamApi ==
    [interpretDream   |-> [fn |-> "apiFetch", endpoint |-> "/api/dreams/interpret",
                           method |-> "POST"],
     analyzeDream     |-> [fn |-> "apiFetchWithAuth", endpoint |-> "/api/dreams/analyze",
                           method |-> "POST"],
     getDreamHistory  |-> [fn |-> "apiFetchWithAuth", endpoint |-> "/api/dreams/history",
                           method |-> "GET"],
     searchSymbols    |-> [fn |-> "apiFetch", endpoint |-> "/api/dreams/search",
                           method |-> "POST"],
     getCommonSymbols |-> [fn |-> "apiFetch", endpoint |-> "/api/dreams/symbols/common",
                           method |-> "GET"],
     healthCheck      |-> [fn |-> "fetch", endpoint |-> "/api/health",
                           method |-> "GET"],
     analyzeTriangle  |-> [fn |-> "apiFetch", endpoint |-> "/api/dreams/triangle",
                           method |-> "POST"]]
DreamApiOps == DOMAIN dreamApi

\* options.headers of a call made with headers of its own.
OptionHeaders ==
    {NoHeaders,
     "Accept" :> "text/plain",
     "Content-Type" :> "text/plain",
     "content-type" :> "text/plain",
     "X-API-Key" :> "other-key",
     "Authorization" :> "Bearer other"}

NoCall == [fn |-> "none", op |-> "none", endpoint |-> "", method |-> "",
           headers |-> NoHeaders]
NoResponse == [kind |-> "none"]
NoOutcome == [kind |-> "none"]

Request(call, headers) ==
    [endpoint |-> call.endpoint, method |-> call.method, headers |-> headers]

\* apiFetch(endpoint, options): the configuration is built and the request
\* sent at once.
CallApiFetch(op, endpoint, method, optionHeaders) ==
    /\ apiPc = "idle"
    /\ apiCall' = [fn |-> "apiFetch", op |-> op, endpoint |-> endpoint,
                   method |-> method, headers |-> optionHeaders]
    /\ apiRequests' = Append(apiRequests,
                             Request(apiCall', apiFetchHeaders(optionHeaders)))
    /\ apiPc' = "awaitResponse"
    /\ UNCHANGED <<API_SECRET_KEY, apiToken, apiResponse, apiOutcome, apiLog>>
    /\ UNCHANGED <<hexVars, restVars>>

\* apiFetchWithAuth(endpoint, options), up to the await of getAccessToken().
CallApiFetchWithAuth(op, endpoint, method, optionHeaders) ==
    /\ apiPc = "idle"
    /\ apiCall' = [fn |-> "apiFetchWithAuth", op |-> op, endpoint |-> endpoint,
                   method |-> method, headers |-> optionHeaders]
    /\ apiPc' = "awaitToken"
    /\ UNCHANGED <<API_SECRET_KEY, apiToken, apiRequests, apiResponse, apiOutcome,
                   apiLog>>
    /\ UNCHANGED <<hexVars, restVars>>

\* getAccessToken() settles; apiFetchWithAuth builds its headers and sends
\* the request.
TokenSettled(lookup) ==
    /\ apiPc = "awaitToken"
    /\ apiToken' = getAccessToken(lookup)
    /\ apiLog' = IF lookup.kind = "throws"
                 THEN Append(apiLog, "Error getting access token:")
                 ELSE apiLog
    /\ apiRequests' = Append(apiRequests,
                             Request(apiCall,
                                     apiFetchWithAuthHeaders(apiToken', apiCall.headers)))
    /\ apiPc' = "awaitResponse"
    /\ UNCHANGED <<API_SECRET_KEY, apiCall, apiResponse, apiOutcome>>
    /\ UNCHANGED <<hexVars, restVars>>

\* dreamApi.healthCheck: fetch(url) with no configuration at all.
CallHealthCheck ==
    /\ apiPc = "idle"
    /\ apiCall' = [fn |-> "fetch", op |-> "healthCheck",
                   endpoint |-> dreamApi.healthCheck.endpoint,
                   method |-> dreamApi.healthCheck.method, headers |-> NoHeaders]
    /\ apiRequests' = Append(apiRequests, Request(apiCall', NoHeaders))
    /\ apiPc' = "awaitResponse"
    /\ UNCHANGED <<API_SECRET_KEY, apiToken, apiResponse, apiOutcome, apiLog>>
    /\ UNCHANGED <<hexVars, restVars>>

\* A call of apiFetch with options.headers of the caller's own: the
\* function accepts any RequestInit, though no operation of dreamApi passes
\* headers.
DirectApiFetch(optionHeaders) ==
    CallApiFetch("direct", "/api/any", "POST", optionHeaders)

DirectApiFetchWithAuth(optionHeaders) ==
    CallApiFetchWithAuth("direct", "/api/any", "POST", optionHeaders)

\* One of the operations of dreamApi is invoked; none passes headers.
CallDreamApi(op) ==
    CASE dreamApi[op].fn = "apiFetch" ->
            CallApiFetch(op, dreamApi[op].endpoint, dreamApi[op].method, NoHeaders)
      [] dreamApi[op].fn = "apiFetchWithAuth" ->
            CallApiFetchWithAuth(op, dreamApi[op].endpoint, dreamApi[op].method,
                                 NoHeaders)
      [] dreamApi[op].fn = "fetch" -> CallHealthCheck

\* The response arrives and the awaiting function finishes.
ResponseArrives(response) ==
    /\ apiPc = "awaitResponse"
    /\ apiResponse' = response
    /\ apiOutcome' = Resume(apiCall.fn, response)
    /\ apiLog' = IF apiCall.fn = "apiFetchWithAuth"
                 THEN apiLog \o AuthErrorLog(response)
                 ELSE apiLog
    /\ apiPc' = "done"
    /\ UNCHANGED <<API_SECRET_KEY, apiCall, apiToken, apiRequests>>
    /\ UNCHANGED <<hexVars, restVars>>

\* Variant: a rejected fetch answered by sending the request once more.
TransportFails_retries(error) ==
    /\ apiPc = "awaitResponse"
    /\ Len(apiRequests) < 3
    /\ apiRequests' = Append(apiRequests, apiRequests[Len(apiRequests)])
    /\ UNCHANGED <<API_SECRET_KEY, apiPc, apiCall, apiToken, apiResponse,
                   apiOutcome, apiLog>>
    /\ UNCHANGED <<hexVars, restVars>>

\* fetch rejects: no response; the rejection passes through the function.
TransportFails(error) ==
    /\ apiPc = "awaitResponse"
    /\ apiResponse' = Rejected(error)
    /\ apiOutcome' = Resume(apiCall.fn, apiResponse')
    /\ apiPc' = "done"
    /\ UNCHANGED <<API_SECRET_KEY, apiCall, apiToken, apiRequests, apiLog>>
    /\ UNCHANGED <<hexVars, restVars>>

\* The caller has its result; the client is ready for the next call.
CallReturns ==
    /\ apiPc = "done"
    /\ apiPc' = "idle"
    /\ apiCall' = NoCall
    /\ apiToken' = null
    /\ apiRequests' = <<>>
    /\ apiResponse' = NoResponse
    /\ apiOutcome' = NoOutcome
    /\ apiLog' = <<>>
    /\ UNCHANGED API_SECRET_KEY
    /\ UNCHANGED <<hexVars, restVars>>

(***************************************************************************)
(* Structure strings given to the component                                *)
(***************************************************************************)
MaxPieces == 4
MaxNamePieces == 2

RECURSIVE Flatten(_)
Flatten(ps) == IF ps = <<>> THEN <<>> ELSE Head(ps) \o Flatten(Tail(ps))

Phrase(marker, word) == marker \o <<" ">> \o word

\* Pieces of the descriptions that carry symbols: the eight symbols, a
\* separator, and one resolvable name phrase for each slot.
SymbolPieces ==
    {<<s>> : s \in TrigramSymbols}
    \cup {<<" ", "-", " ">>,
          Phrase(toUpperCase(UpperMarker), <<"f","i","r","e">>),
          Phrase(LowerMarker, <<"L","a","k","e">>)}

\* Pieces of the descriptions that rely on names: each marker followed by
\* each name of the table (and a word of Object.prototype, and a word that
\* is no name) in lower case; four of these phrases in upper case (an
\* English and a Vietnamese name for each marker); one symbol; a separator.
NameWords ==
    {TRIGRAM_NAMES_TABLE[i][1] : i \in DOMAIN TRIGRAM_NAMES_TABLE}
    \cup {<<"c","o","n","s","t","r","u","c","t","o","r">>, <<"f","o","o">>}
NamePhrases ==
    {Phrase(m, w) : m \in {UpperMarker, LowerMarker}, w \in NameWords}
UpperCasePhrases ==
    {toUpperCase(Phrase(UpperMarker, w)) : w \in {<<"f","i","r","e">>, <<"c","a2","n">>}}
    \cup {toUpperCase(Phrase(LowerMarker, w)) : w \in {<<"l","a","k","e">>, <<"d9","a61","t">>}}
NamePieces ==
    NamePhrases \cup UpperCasePhrases \cup {<<WATER>>, <<" ", "-", " ">>}

(***************************************************************************)
(* The components at rest                                                  *)
(***************************************************************************)
NoSession == [kind |-> "none"]
NoRefresh == [kind |-> "none"]
NoResult == [kind |-> "none"]
JsonNull == [kind |-> "null"]

\* AuthProvider.getToken with no call under way.
GetTokenIdle ==
    /\ getTokenPc = "idle"
    /\ currentSession = NoSession
    /\ dateNow = 0
    /\ refreshCalls = 0
    /\ refreshData = NoRefresh
    /\ getTokenResult = NoResult

\* DreamForm as useState initialises it.
DreamFormMounted ==
    /\ dreamText = <<>>
    /\ result = JsonNull
    /\ isLoading = FALSE
    /\ formError = null
    /\ formRequests = <<>>
    /\ formCaught = [kind |-> "none"]

\* ProfilePage as useState initialises it, before its effects have run.
ProfilePageMounted(u) ==
    /\ user = u
    /\ activeTab = "history"
    /\ dreams = <<>>
    /\ isLoadingHistory = FALSE
    /\ historyError = null
    /\ historyRuns = <<>>

\* The database after the migration: no guest row, no profile row.
DatabaseMigrated(today) ==
    /\ CURRENT_DATE = today
    /\ guest_usage = <<>>
    /\ profiles = <<>>
    /\ quotaGranted = <<>>
    /\ quotaLast = [kind |-> "none"]

\* The password fields of the profile page as useState initialises them.
NoMessage == [type |-> "none", text |-> ""]
PasswordFormMounted ==
    /\ passwords = [current |-> <<>>, new |-> <<>>, confirm |-> <<>>]
    /\ isChangingPassword = FALSE
    /\ passwordMessage = NoMessage
    /\ updateUserCalls = <<>>

\* AuthScreen as useState initialises it.
AuthScreenMounted ==
    /\ email = ""
    /\ password = <<>>
    /\ routerPath = "/auth"
    /\ isSignUp = FALSE
    /\ screenLoading = FALSE
    /\ screenError = null
    /\ success = null
    /\ screenCalls = <<>>

\* AuthProvider as useState initialises it: the first render is committed
\* and its effect has called initializeAuth and subscribed.
AuthProviderMounted ==
    /\ authUser = null
    /\ authSession = JsonNull
    /\ authIsLoading = TRUE
    /\ authInit = "pending"
    /\ signOutCalls = 0
    /\ authCommits = <<[user |-> null, session |-> JsonNull, isLoading |-> TRUE]>>

\* JournalingModal as useState initialises it, closed, with the given item
\* in localStorage.
NoItem == [kind |-> "absent"]
JournalingModalMounted(item) ==
    /\ journalText = <<>>
    /\ isSaved = FALSE
    /\ isJournalingOpen = FALSE
    /\ dreamJournal = item
    /\ journalTimers = 0
    /\ journalClock = 0

MoreQuiet ==
    /\ PasswordFormMounted
    /\ AuthScreenMounted
    /\ AuthProviderMounted
    /\ JournalingModalMounted(NoItem)

CoreQuiet ==
    /\ GetTokenIdle
    /\ DreamFormMounted
    /\ ProfilePageMounted(null)
    /\ DatabaseMigrated(1)

\* The components a specification leaves alone.
RestQuiet == CoreQuiet /\ MoreQuiet

\* The API client with no call under way.
ApiIdle ==
    /\ apiPc = "idle"
    /\ apiCall = NoCall
    /\ apiToken = null
    /\ apiRequests = <<>>
    /\ apiResponse = NoResponse
    /\ apiOutcome = NoOutcome
    /\ apiLog = <<>>

HexApiQuiet == API_SECRET_KEY = "" /\ ApiIdle /\ RestQuiet

\* The component is mounted with a structure string and has not rendered yet.
HexMounted(s) ==
    /\ structure = s
    /\ memo = NoMemo
    /\ allLines = <<>>
    /\ hexPc = "pending"
    /\ hexHistory = <<>>

InitHexagram ==
    /\ \E k \in 0..MaxPieces : \E ps \in [1..k -> SymbolPieces] :
           HexMounted(Flatten(ps))
    /\ HexApiQuiet

InitHexNames ==
    /\ \E k \in 0..MaxNamePieces : \E ps \in [1..k -> NamePieces] :
           HexMounted(Flatten(ps))
    /\ HexApiQuiet

NextHexagram == Render

\* The component rendered again and again with changing descriptions:
\* the empty one, pairs and a triple of symbols, a lone symbol with a name
\* phrase, name phrases alone.
SequenceStructures ==
    {<<>>,
     <<HEAVEN, LAKE>>,
     <<LAKE, HEAVEN>>,
     <<HEAVEN, LAKE, WATER>>,
     <<WATER>> \o <<" ", "-", " ">> \o Phrase(UpperMarker, <<"f","i","r","e">>),
     Phrase(UpperMarker, <<"f","i","r","e">>) \o <<" ">>
         \o Phrase(LowerMarker, <<"e","a","r","t","h">>),
     Phrase(LowerMarker, <<"e","a","r","t","h">>)}

InitHexSequence ==
    /\ \E s \in SequenceStructures : HexMounted(s)
    /\ HexApiQuiet

NextHexSequence ==
    \/ Render
    \/ \E s \in SequenceStructures : NewStructure(s)

SpecHexSequence == InitHexSequence /\ [][NextHexSequence]_vars

\* The API client on its own: NEXT_PUBLIC_API_SECRET is set or not, and the
\* component is left unmounted.
InitApi ==
    /\ API_SECRET_KEY \in {"", "client-key"}
    /\ ApiIdle
    /\ HexMounted(<<>>)
    /\ RestQuiet

NextApi ==
    \/ \E op \in DreamApiOps : CallDreamApi(op)
    \/ \E h \in OptionHeaders : DirectApiFetch(h)
    \/ \E h \in OptionHeaders : DirectApiFetchWithAuth(h)
    \/ \E lookup \in SessionLookups : TokenSettled(lookup)
    \/ \E response \in Responses : ResponseArrives(response)
    \/ \E error \in FetchRejections : TransportFails(error)
    \/ CallReturns

SpecApi == InitApi /\ [][NextApi]_vars

SpecHexagram == InitHexagram /\ [][NextHexagram]_vars
SpecHexNames == InitHexNames /\ [][NextHexagram]_vars

(***************************************************************************)
(* Properties of the hexagram decoder                                      *)
(***************************************************************************)
\* What parseTrigramSymbols returned at the last render.
parsed == memo.value
HexDone == hexPc # "pending"

SymbolPositions(s) == {i \in 1..Len(s) : s[i] \in TrigramSymbols}

\* The marker stands at position i of s, in any letter case.
MarkerHere(s, i, marker) ==
    /\ i + Len(marker) - 1 <= Len(s)
    /\ \A k \in 1..Len(marker) :
          toLowerCaseChar(s[i + k - 1]) = toLowerCaseChar(marker[k])

\* A name phrase for marker starts at position i of s and its word starts at
\* position j: the marker, then white space only, then a word character.
PhraseAt(s, i, j, marker) ==
    /\ MarkerHere(s, i, marker)
    /\ j \in (i + Len(marker) + 1)..Len(s)
    /\ s[j] \in WordChars
    /\ \A k \in (i + Len(marker))..(j - 1) : s[k] \in SpaceChars

\* The positions of s at which a name phrase for marker starts.
PhraseStarts(s, marker) ==
    {i \in 1..Len(s) : /\ MarkerHere(s, i, marker)
                       /\ \E j \in (i + 1)..Len(s) : PhraseAt(s, i, j, marker)}

HasNamePhrase(s, marker) == PhraseStarts(s, marker) # {}

\* C1: when the description holds two or more trigram symbols, upper is the
\* first symbol in order of appearance and lower is the second, whatever
\* later symbols and name phrases the description holds.
ThmC1_FirstTwoSymbols ==
    HexDone =>
        \A i, j \in SymbolPositions(structure) :
            (/\ i < j
             /\ \A k \in SymbolPositions(structure) : k = i \/ k >= j)
            => /\ parsed.upper = structure[i]
               /\ parsed.lower = structure[j]

\* A description with three symbols and a name phrase has been decoded.
WitC1_ThreeSymbolsAndPhrase ==
    /\ HexDone
    /\ Cardinality(SymbolPositions(structure)) >= 3
    /\ HasNamePhrase(structure, UpperMarker)
    /\ parsed.upper = structure[CHOOSE i \in SymbolPositions(structure) :
                                   \A k \in SymbolPositions(structure) : i <= k]
    /\ parsed.upper # FIRE

\* C2: with no symbol in the description, a marker followed by white space
\* and any of the 24 names of TRIGRAM_NAMES, in lower or upper case, resolves
\* that slot to the name's symbol.
CexC2_EveryNameResolves ==
    HexDone =>
        \A n \in DOMAIN TRIGRAM_NAMES_TABLE :
            LET name == TRIGRAM_NAMES_TABLE[n][1]
                sym  == TRIGRAM_NAMES_TABLE[n][2]
            IN  /\ structure \in {Phrase(UpperMarker, name),
                                  toUpperCase(Phrase(UpperMarker, name))}
                      => parsed.upper = sym
                /\ structure \in {Phrase(LowerMarker, name),
                                  toUpperCase(Phrase(LowerMarker, name))}
                      => parsed.lower = sym

\* The word of the leftmost name phrase for marker in s: the word characters
\* from the phrase's word start on (NoSeq when s has no phrase).
PhraseWord(s, marker) ==
    LET starts == PhraseStarts(s, marker)
    IN  IF starts = {} THEN NoSeq
        ELSE LET i == CHOOSE k \in starts : \A h \in starts : k <= h
                 w == CHOOSE j \in (i + 1)..Len(s) : PhraseAt(s, i, j, marker)
                 e == CHOOSE j \in w..Len(s) :
                         /\ \A k \in w..j : s[k] \in WordChars
                         /\ (j = Len(s) \/ s[j + 1] \notin WordChars)
             IN  SubSeq(s, w, e)

\* The symbol of the table entry that word spells, in any letter case
\* (null when the table has no such name).
TableSymbol(word) ==
    LET hits == {n \in DOMAIN TRIGRAM_NAMES_TABLE :
                    TRIGRAM_NAMES_TABLE[n][1] = toLowerCase(word)}
    IN  IF hits = {} THEN null ELSE TRIGRAM_NAMES_TABLE[CHOOSE n \in hits : TRUE][2]

\* C3: with fewer than two symbols each slot resolves on its own: a slot
\* whose marker phrase is absent is null whatever the other slot holds, a
\* slot whose phrase names a table entry holds that entry's symbol whether
\* or not the other slot has a phrase, and the result is always a pair.
ThmC3_SlotsIndependent ==
    HexDone =>
        /\ memo.set /\ DOMAIN parsed = {"upper", "lower"}
        /\ Cardinality(SymbolPositions(structure)) < 2 =>
              LET upperSym == TableSymbol(PhraseWord(structure, UpperMarker))
                  lowerSym == TableSymbol(PhraseWord(structure, LowerMarker))
              IN  /\ ~HasNamePhrase(structure, UpperMarker) => parsed.upper = null
                  /\ ~HasNamePhrase(structure, LowerMarker) => parsed.lower = null
                  /\ upperSym # null => parsed.upper = upperSym
                  /\ lowerSym # null => parsed.lower = lowerSym

\* "THUONG FIRE" in upper case alone: upper is Fire, lower is null.
WitC3_UpperOnly ==
    /\ HexDone
    /\ structure = toUpperCase(Phrase(UpperMarker, <<"f","i","r","e">>))
    /\ parsed = [upper |-> FIRE, lower |-> null]

\* The three lines a slot stands for: the table's entry, all solid for null.
SlotLines(ref) == IF ref = null THEN <<TRUE, TRUE, TRUE>> ELSE TRIGRAM_LINES_TABLE[ref]

\* C4: for every decoded pair of symbols or nulls the rendered sequence has
\* six entries: the upper slot's lines from its third to its first, then the
\* lower slot's lines from its third to its first, a null slot being solid.
ThmC4_LineSequence ==
    (/\ HexDone
     /\ parsed.upper \in TrigramSymbols \cup {null}
     /\ parsed.lower \in TrigramSymbols \cup {null})
    => /\ hexPc = "rendered"
       /\ Len(allLines) = 6
       /\ \A k \in 1..3 :
             /\ allLines[k] = SlotLines(parsed.upper)[4 - k]
             /\ allLines[3 + k] = SlotLines(parsed.lower)[4 - k]
       /\ (parsed.upper = null /\ parsed.lower = null)
             => allLines = <<TRUE, TRUE, TRUE, TRUE, TRUE, TRUE>>

\* An unresolved upper slot above Lake: three solid lines, then Lake's
\* lines top first.
WitC4_NullOverLake ==
    /\ hexPc = "rendered"
    /\ parsed = [upper |-> null, lower |-> LAKE]
    /\ allLines = <<TRUE, TRUE, TRUE>> \o reverse(TRIGRAM_LINES_TABLE[LAKE])
    /\ allLines[4] # allLines[6]

\* The eight trigrams, bottom line first.
StandardTrigrams ==
    [s \in TrigramSymbols |->
        CASE s = HEAVEN   -> <<TRUE, TRUE, TRUE>>
          [] s = EARTH    -> <<FALSE, FALSE, FALSE>>
          [] s = WATER    -> <<FALSE, TRUE, FALSE>>
          [] s = FIRE     -> <<TRUE, FALSE, TRUE>>
          [] s = THUNDER  -> <<TRUE, FALSE, FALSE>>
          [] s = WIND     -> <<FALSE, TRUE, TRUE>>
          [] s = MOUNTAIN -> <<FALSE, FALSE, TRUE>>
          [] s = LAKE     -> <<TRUE, TRUE, FALSE>>]

\* C5: the lines the component takes from TRIGRAM_LINES for a decoded symbol
\* are the three lines of that trigram, bottom first, and two different
\* symbols never have the same lines.
CexC5_StandardTable ==
    hexPc = "rendered" =>
        /\ \A ref \in {parsed.upper, parsed.lower} \cap TrigramSymbols :
              /\ Len(LinesOf(ref)) = 3
              /\ LinesOf(ref) = StandardTrigrams[ref]
        /\ (/\ parsed.upper \in TrigramSymbols
            /\ parsed.lower \in TrigramSymbols
            /\ parsed.upper # parsed.lower)
           => LinesOf(parsed.upper) # LinesOf(parsed.lower)

(***************************************************************************)
(* Properties of the API client                                            *)
(***************************************************************************)
ApiDone == apiPc = "done"
GotResponse == ApiDone /\ apiResponse.kind = "response"
ThrewApiException ==
    ApiDone /\ apiOutcome.kind = "thrown" /\ apiOutcome.error.name = "ApiException"

\* HTTP header names are compared without regard to letter case.
HeaderNameKey(k) ==
    CASE k \in {"Content-Type", "content-type"} -> "content-type"
      [] k = "X-API-Key" -> "x-api-key"
      [] k = "Authorization" -> "authorization"
      [] OTHER -> k

\* The request carries header name with value v and with no other value.
HeaderIs(headers, name, v) ==
    /\ \E k \in DOMAIN headers : HeaderNameKey(k) = HeaderNameKey(name)
    /\ \A k \in DOMAIN headers :
          HeaderNameKey(k) = HeaderNameKey(name) => headers[k] = v

NamesHeader(headers, name) ==
    \E k \in DOMAIN headers : HeaderNameKey(k) = HeaderNameKey(name)

\* C6: whatever operation of dreamApi is called, a response with a status
\* outside 200..299 makes it throw an ApiException carrying that status.
CexC6_EveryOperationThrows ==
    (GotResponse /\ apiCall.op \in DreamApiOps /\ ~ok(apiResponse))
    => /\ ThrewApiException
       /\ apiOutcome.error.statusCode = apiResponse.status

\* C7 as stated: every request of apiFetch and apiFetchWithAuth, whatever
\* headers the options carry, has Content-Type application/json and, with a
\* client key configured, X-API-Key equal to it.
CexC7_HeadersWhateverOptions ==
    \A i \in DOMAIN apiRequests :
        apiCall.fn \in {"apiFetch", "apiFetchWithAuth"} =>
            /\ HeaderIs(apiRequests[i].headers, "Content-Type", "application/json")
            /\ API_SECRET_KEY # "" =>
                  HeaderIs(apiRequests[i].headers, "X-API-Key", API_SECRET_KEY)

\* C7 amended: the same, for calls whose options carry no Content-Type and
\* no X-API-Key header of their own (every operation of dreamApi is one).
ThmC7_BaseHeadersAttached ==
    \A i \in DOMAIN apiRequests :
        (/\ apiCall.fn \in {"apiFetch", "apiFetchWithAuth"}
         /\ ~NamesHeader(apiCall.headers, "Content-Type")
         /\ ~NamesHeader(apiCall.headers, "X-API-Key"))
        => /\ HeaderIs(apiRequests[i].headers, "Content-Type", "application/json")
           /\ API_SECRET_KEY # "" =>
                 HeaderIs(apiRequests[i].headers, "X-API-Key", API_SECRET_KEY)

\* apiFetchWithAuth has sent a request for a caller that passed an Accept
\* header, with the client key configured.
WitC7_CallerAcceptHeader ==
    /\ apiCall.fn = "apiFetchWithAuth"
    /\ apiCall.headers = ("Accept" :> "text/plain")
    /\ API_SECRET_KEY = "client-key"
    /\ Len(apiRequests) = 1
    /\ apiRequests[1].headers["X-API-Key"] = "client-key"
    /\ apiRequests[1].headers["Accept"] = "text/plain"

\* C8: apiFetchWithAuth called without headers of the caller sends exactly
\* one request once the token lookup has settled; with no token the request
\* has no Authorization header, with token t it has "Bearer t"; and it has
\* the client key whenever one is configured.
ThmC8_HeaderAssembly ==
    (apiCall.fn = "apiFetchWithAuth" /\ apiCall.headers = NoHeaders) =>
        /\ apiPc = "awaitToken" => Len(apiRequests) = 0
        /\ apiPc \in {"awaitResponse", "done"} =>
              /\ Len(apiRequests) = 1
              /\ LET headers == apiRequests[1].headers
                 IN  /\ apiToken = null => ~NamesHeader(headers, "Authorization")
                     /\ apiToken # null =>
                           HeaderIs(headers, "Authorization", "Bearer " \o apiToken)
                     /\ API_SECRET_KEY # "" =>
                           HeaderIs(headers, "X-API-Key", API_SECRET_KEY)

\* The session lookup threw, and the request went out with the client key
\* and without Authorization.
WitC8_LookupFailed ==
    /\ apiCall.fn = "apiFetchWithAuth"
    /\ apiCall.op = "getDreamHistory"
    /\ apiLog = <<"Error getting access token:">>
    /\ apiToken = null
    /\ apiPc = "awaitResponse"
    /\ Len(apiRequests) = 1
    /\ apiRequests[1].headers =
          ("Content-Type" :> "application/json") @@ ("X-API-Key" :> "client-key")

\* C9: of an ApiException thrown for a response, isApiKeyError is true
\* exactly when the status is 403, isAuthError exactly when it is 401 and
\* isRateLimitError exactly when it is 429; so at most one of them is true.
ThmC9_Classification ==
    (ThrewApiException /\ apiResponse.kind = "response") =>
        LET e == apiOutcome.error
            status == apiResponse.status
        IN  /\ isApiKeyError(e) <=> status = 403
            /\ isAuthError(e) <=> status = 401
            /\ isRateLimitError(e) <=> status = 429
            /\ Cardinality({p \in {"key", "auth", "rate"} :
                               \/ p = "key" /\ isApiKeyError(e)
                               \/ p = "auth" /\ isAuthError(e)
                               \/ p = "rate" /\ isRateLimitError(e)}) <= 1

\* A 403 was answered: only the forbidden predicate is true of the error.
WitC9_Forbidden ==
    /\ ThrewApiException
    /\ apiResponse.kind = "response"
    /\ apiResponse.status = 403
    /\ isApiKeyError(apiOutcome.error)
    /\ ~isAuthError(apiOutcome.error)
    /\ ~isRateLimitError(apiOutcome.error)

\* C10: a response outside 200..299 whose body is not JSON makes apiFetch
\* and apiFetchWithAuth throw an ApiException with that status and the
\* message "HTTP <status>: <statusText>".
ThmC10_MalformedBody ==
    (/\ GotResponse
     /\ apiCall.fn \in {"apiFetch", "apiFetchWithAuth"}
     /\ ~ok(apiResponse)
     /\ apiResponse.body.kind = "text")
    => /\ ThrewApiException
       /\ apiOutcome.error.statusCode = apiResponse.status
       /\ apiOutcome.error.message =
             "HTTP " \o ToString(apiResponse.status) \o ": " \o apiResponse.statusText

\* A 500 with an empty status text and an unparsable body.
WitC10_Http500 ==
    /\ GotResponse
    /\ apiCall.fn = "apiFetchWithAuth"
    /\ apiResponse.status = 500
    /\ apiResponse.statusText = ""
    /\ apiResponse.body.kind = "text"
    /\ ThrewApiException
    /\ apiOutcome.error.message = "HTTP 500: "

\* A response outside 200..299 with a JSON object body was answered to
\* apiFetch or apiFetchWithAuth.
ErrorBodyAnswered ==
    /\ GotResponse
    /\ apiCall.fn \in {"apiFetch", "apiFetchWithAuth"}
    /\ ~ok(apiResponse)
    /\ apiResponse.body.kind = "object"

\* C11 as stated: the thrown error's detail is the body's detail field when
\* present, otherwise the body's message field when present, and absent only
\* when the body has neither.
CexC11_DetailOrMessage ==
    ErrorBodyAnswered =>
        /\ ThrewApiException
        /\ apiOutcome.error.detail =
              IF apiResponse.body.detail # undefined THEN apiResponse.body.detail
              ELSE apiResponse.body.message

\* C11 amended: the thrown error's detail is the body's detail field and
\* nothing else (absent when the body has no detail field, whether or not it
\* has a message field); the message field is used for the error's message
\* only, after a non-empty detail and before "Request failed".
ThmC11_DetailFieldOnly ==
    ErrorBodyAnswered =>
        /\ ThrewApiException
        /\ apiOutcome.error.detail = apiResponse.body.detail
        /\ apiOutcome.error.message =
              IF Truthy(apiResponse.body.detail) THEN apiResponse.body.detail
              ELSE IF Truthy(apiResponse.body.message) THEN apiResponse.body.message
              ELSE "Request failed"

\* A 400 whose body has a message field and no detail field: the error has
\* the message and no detail.
WitC11_MessageOnlyBody ==
    /\ ErrorBodyAnswered
    /\ apiResponse.status = 400
    /\ apiResponse.body.detail = undefined
    /\ apiResponse.body.message = "text"
    /\ apiOutcome.error.detail = undefined
    /\ apiOutcome.error.message = "text"

\* C12: a call of apiFetch or apiFetchWithAuth has issued no request before
\* its fetch and exactly one from then on, whatever the outcome (a 2xx, a
\* non-2xx, an unparsable body, a rejected fetch); and once the call has its
\* outcome the list of requests does not grow until the call has returned
\* and the client is called again.
ThmC12_OneRequestPerCall ==
    /\ [](apiCall.fn \in {"apiFetch", "apiFetchWithAuth"} =>
             /\ apiPc = "awaitToken" => Len(apiRequests) = 0
             /\ apiPc \in {"awaitResponse", "done"} => Len(apiRequests) = 1)
    /\ [](apiPc = "idle" => Len(apiRequests) = 0)
    /\ [][Len(apiRequests') > Len(apiRequests) =>
             /\ apiPc \in {"idle", "awaitToken"}
             /\ apiPc' = "awaitResponse"
             /\ Len(apiRequests') = 1]_vars

\* The fetch of an apiFetch call was rejected: one request, and no other.
WitC12_FailedOnce ==
    /\ ApiDone
    /\ apiCall.fn = "apiFetch"
    /\ apiResponse.kind = "failed"
    /\ apiOutcome.kind = "thrown"
    /\ Len(apiRequests) = 1

\* C13: for the response a call got, the wrapper that was called and the
\* other wrapper give the same result: the same returned body, or an
\* ApiException with the same message, statusCode and detail; the lines that
\* apiFetchWithAuth logs leave what it throws as apiFetch throws it.
ThmC13_VariantsAgree ==
    (GotResponse /\ apiCall.fn \in {"apiFetch", "apiFetchWithAuth"}) =>
        /\ apiOutcome = apiFetch(apiResponse)
        /\ apiOutcome = apiFetchWithAuth(apiResponse)
        /\ ~ok(apiResponse) => ThrewApiException

\* apiFetchWithAuth logged a 401 and threw what apiFetch throws for it.
WitC13_LoggedAuthError ==
    /\ GotResponse
    /\ apiCall.fn = "apiFetchWithAuth"
    /\ apiResponse.status = 401
    /\ apiLog # <<>>
    /\ apiLog[Len(apiLog)] = "Auth error"
    /\ apiOutcome = apiFetch(apiResponse)
    /\ apiOutcome.error.statusCode = 401

(***************************************************************************)
(* Properties of the hexagram decoder, continued                           *)
(***************************************************************************)
\* C18: whatever descriptions were decoded before, what is rendered for the
\* current description is what a first decoding of that description alone
\* gives: the same upper and lower references and the same six lines; the
\* memo never holds the result of another description.
ThmC18_NoHiddenState ==
    /\ hexPc = "rendered" =>
          LET fresh == parseTrigramSymbols(structure)
          IN  /\ memo.deps = structure
              /\ parsed = fresh
              /\ allLines = buildLineSequence(LinesOf(fresh.upper), LinesOf(fresh.lower))
    /\ \A i, j \in DOMAIN hexHistory :
          hexHistory[i].structure = hexHistory[j].structure
              => hexHistory[i] = hexHistory[j]

\* Heaven over Lake was rendered, then Lake over Heaven, then Heaven over
\* Lake again with the references and lines of the first render.
WitC18_DecodedAgain ==
    /\ hexPc = "rendered"
    /\ Len(hexHistory) = 3
    /\ hexHistory[1].structure = <<HEAVEN, LAKE>>
    /\ hexHistory[2].structure = <<LAKE, HEAVEN>>
    /\ hexHistory[2].lines # hexHistory[1].lines
    /\ hexHistory[3] = hexHistory[1]
    /\ allLines = hexHistory[1].lines

\* C19: a description with exactly one trigram symbol is decoded from its
\* name phrases only: each slot is null without its phrase and the named
\* trigram with it, and with no phrase at all both slots are null and six
\* solid lines are rendered.
ThmC19_LoneSymbol ==
    (HexDone /\ Cardinality(SymbolPositions(structure)) = 1) =>
        /\ parsed.upper = TableSymbol(PhraseWord(structure, UpperMarker))
        /\ parsed.lower = TableSymbol(PhraseWord(structure, LowerMarker))
        /\ (~HasNamePhrase(structure, UpperMarker) /\ ~HasNamePhrase(structure, LowerMarker))
           => /\ parsed = [upper |-> null, lower |-> null]
              /\ hexPc = "rendered"
              /\ allLines = <<TRUE, TRUE, TRUE, TRUE, TRUE, TRUE>>

\* Lake alone, with a separator and no name phrase: six solid lines.
WitC19_LakeAlone ==
    /\ hexPc = "rendered"
    /\ structure = <<LAKE>> \o <<" ", "-", " ">>
    /\ parsed = [upper |-> null, lower |-> null]
    /\ allLines = <<TRUE, TRUE, TRUE, TRUE, TRUE, TRUE>>

(***************************************************************************)
(* AuthProvider (auth context with auto-refresh): getToken                 *)
(***************************************************************************)
\* The threshold of the expiry check, in seconds.
RefreshThreshold == 60

\* expires_at of the sessions followed, in seconds since the epoch.
SessionExpiry == 1000

\* Sessions the identity provider can hold: an access token, and expires_at
\* when the provider declared it.
Sessions ==
    {[kind |-> "session", access_token |-> t, expiryKnown |-> k, expires_at |-> e] :
        t \in {"token-1", "token-2"}, k \in BOOLEAN,
        e \in {SessionExpiry, SessionExpiry + 30}}

\* What supabase.auth.getSession() settles with in getToken.
GetSessionOutcomes ==
    Sessions \cup {[kind |-> "error"], [kind |-> "none"], [kind |-> "throws"]}

\* What supabase.auth.refreshSession() settles with: a new session, an
\* error, no error and no session, or a thrown exception.
RefreshOutcomes ==
    {[kind |-> "session", access_token |-> "token-refreshed", expiryKnown |-> TRUE,
      expires_at |-> SessionExpiry + 3600],
     [kind |-> "error"], [kind |-> "none"], [kind |-> "throws"]}

\* Date.now() at the expiry check, in milliseconds: around the threshold of
\* the first expiry, around that expiry itself, and after it.
ClockReadings ==
    {(SessionExpiry - 61) * 1000,
     (SessionExpiry - 60) * 1000 - 1,
     (SessionExpiry - 60) * 1000,
     (SessionExpiry - 60) * 1000 + 1,
     (SessionExpiry - 60) * 1000 + 999,
     (SessionExpiry - 59) * 1000,
     SessionExpiry * 1000 - 1,
     SessionExpiry * 1000,
     (SessionExpiry + 5) * 1000}

\* Math.floor(Date.now() / 1000)
NowSeconds(ms) == ms \div 1000

\* Variant: the refresh already at exactly the threshold.
ExpiringSoon_atThreshold(session, ms) ==
    /\ session.expiryKnown
    /\ session.expires_at # 0
    /\ session.expires_at - NowSeconds(ms) <= RefreshThreshold

\* expiresAt && expiresAt - now < 60
ExpiringSoon(session, ms) ==
    /\ session.expiryKnown
    /\ session.expires_at # 0
    /\ session.expires_at - NowSeconds(ms) < RefreshThreshold

Returned(v) == [kind |-> "returned", value |-> v]
Thrown(e) == [kind |-> "thrown", error |-> e]

\* Variant: no catch block, the exception leaves the function.
CatchReturnsNull_rethrows(outcome) == outcome

\* catch (error) { console.error(...); return null; } around a try block
\* that ended with outcome.
CatchReturnsNull(outcome) ==
    IF outcome.kind = "thrown" THEN Returned(null) ELSE outcome

\* The try block of the getToken without refresh and of getAccessToken:
\* await getSession(), then data.session?.access_token ?? null.  An error
\* reported by getSession() comes with no session.
TrySessionToken(lookup) ==
    IF lookup.kind = "throws" THEN Thrown("getSession")
    ELSE IF lookup.kind = "session" THEN Returned(lookup.access_token)
    ELSE Returned(null)

\* getToken of the AuthProvider without auto-refresh.
getTokenNoRefresh(lookup) == CatchReturnsNull(TrySessionToken(lookup))

\* getToken is called and awaits getSession().
CallGetToken ==
    /\ getTokenPc = "idle"
    /\ getTokenPc' = "awaitSession"
    /\ UNCHANGED <<currentSession, dateNow, refreshCalls, refreshData, getTokenResult>>
    /\ UNCHANGED <<hexVars, apiVars, formVars, profileVars, quotaVars,
                   moreVars>>

\* getSession() settles: an error, no session or an exception end the call
\* with null; with a session, the clock is read and either the refresh is
\* started or the current access token returned.
GetSessionSettles(outcome, ms) ==
    /\ getTokenPc = "awaitSession"
    /\ IF outcome.kind # "session"
       THEN /\ getTokenResult' = CatchReturnsNull(IF outcome.kind = "throws"
                                                  THEN Thrown("getSession")
                                                  ELSE Returned(null))
            /\ getTokenPc' = "done"
            /\ UNCHANGED <<currentSession, dateNow, refreshCalls>>
       ELSE /\ currentSession' = outcome
            /\ dateNow' = ms
            /\ IF ExpiringSoon(outcome, ms)
               THEN /\ refreshCalls' = refreshCalls + 1
                    /\ getTokenPc' = "awaitRefresh"
                    /\ UNCHANGED getTokenResult
               ELSE /\ getTokenResult' = Returned(outcome.access_token)
                    /\ getTokenPc' = "done"
                    /\ UNCHANGED refreshCalls
    /\ UNCHANGED refreshData
    /\ UNCHANGED <<hexVars, apiVars, formVars, profileVars, quotaVars,
                   moreVars>>

\* refreshSession() settles: refreshError || !refreshData.session, or an
\* exception, end the call with null; otherwise the new access token.
RefreshSettles(outcome) ==
    /\ getTokenPc = "awaitRefresh"
    /\ refreshData' = outcome
    /\ getTokenResult' = CatchReturnsNull(
                             IF outcome.kind = "throws" THEN Thrown("refreshSession")
                             ELSE IF outcome.kind = "session"
                             THEN Returned(outcome.access_token)
                             ELSE Returned(null))
    /\ getTokenPc' = "done"
    /\ UNCHANGED <<currentSession, dateNow, refreshCalls>>
    /\ UNCHANGED <<hexVars, apiVars, formVars, profileVars, quotaVars,
                   moreVars>>

\* The caller has the token; the next call starts afresh.
GetTokenReturns ==
    /\ getTokenPc = "done"
    /\ getTokenPc' = "idle"
    /\ currentSession' = NoSession
    /\ dateNow' = 0
    /\ refreshCalls' = 0
    /\ refreshData' = NoRefresh
    /\ getTokenResult' = NoResult
    /\ UNCHANGED <<hexVars, apiVars, formVars, profileVars, quotaVars,
                   moreVars>>

InitGetToken ==
    /\ GetTokenIdle
    /\ HexMounted(<<>>)
    /\ API_SECRET_KEY = "" /\ ApiIdle
    /\ DreamFormMounted
    /\ ProfilePageMounted(null)
    /\ DatabaseMigrated(1)
    /\ MoreQuiet

NextGetToken ==
    \/ CallGetToken
    \/ \E outcome \in GetSessionOutcomes, ms \in ClockReadings :
           GetSessionSettles(outcome, ms)
    \/ \E outcome \in RefreshOutcomes : RefreshSettles(outcome)
    \/ GetTokenReturns

SpecGetToken == InitGetToken /\ [][NextGetToken]_vars

(***************************************************************************)
(* Properties of getToken                                                  *)
(***************************************************************************)
\* getToken has returned for a session whose expiry the provider declared.
ReturnedWithKnownExpiry ==
    /\ getTokenPc = "done"
    /\ currentSession.kind = "session"
    /\ currentSession.expiryKnown

\* Milliseconds the current access token had left at the check.
LeftMs == currentSession.expires_at * 1000 - dateNow

ThmC23_NeverThrows ==
    /\ \A lookup \in GetSessionOutcomes \cup SessionLookups :
          LET outcome == getTokenNoRefresh(lookup)
          IN  /\ outcome.kind = "returned"
              /\ lookup.kind # "session" => outcome.value = null
              /\ lookup.kind # "error" => getAccessToken(lookup) = outcome.value
    /\ getTokenPc = "done" =>
          /\ getTokenResult.kind = "returned"
          /\ currentSession.kind # "session" => getTokenResult.value = null
          /\ (refreshCalls > 0 /\ refreshData.kind # "session") =>
                 getTokenResult.value = null

\* The refresh of a token with 59 seconds left failed and null was returned.
WitC23_RefreshFailedEarly ==
    /\ getTokenPc = "done"
    /\ currentSession.kind = "session"
    /\ LeftMs = (RefreshThreshold - 1) * 1000
    /\ refreshCalls = 1
    /\ refreshData.kind = "error"
    /\ getTokenResult = Returned(null)

(***************************************************************************)
(* DreamForm                                                               *)
(***************************************************************************)
\* The length below which the submit button is disabled.
MinDreamLength == 10

\* Analysis requests followed at the same time.
MaxOutstanding == 2

Text(n, c) == [i \in 1..n |-> c]

\* Values the textarea's onChange delivers: empty, too short by far and by
\* one, just long enough (in letters, and in blanks only), and longer.
DreamTexts ==
    {Text(0, "z"), Text(1, "z"), Text(MinDreamLength - 1, "z"),
     Text(MinDreamLength, "z"), Text(MinDreamLength, " "),
     Text(MinDreamLength + 1, "z")}

FallbackMessage == "The oracle is silent right now. Please try again later."

\* {!result ? <form> : <results>}: JSON null is the only falsy analysis.
FormShown == result = JsonNull

\* Variant: the button disabled by the length of the text only.
submitDisabled_lengthOnly == Len(dreamText) < MinDreamLength

\* disabled={isLoading || dreamText.length < 10}
submitDisabled == isLoading \/ Len(dreamText) < MinDreamLength

\* onChange of the textarea.
Type(text) ==
    /\ FormShown
    /\ dreamText' = text
    /\ UNCHANGED <<result, isLoading, formError, formRequests, formCaught>>
    /\ UNCHANGED <<hexVars, apiVars, tokenVars, profileVars, quotaVars,
                   moreVars>>

\* The request dreamApi.analyzeTriangle sends through apiFetch.
AnalyzeTriangleRequest(text) ==
    [endpoint |-> dreamApi.analyzeTriangle.endpoint,
     method |-> dreamApi.analyzeTriangle.method,
     headers |-> apiFetchHeaders(NoHeaders),
     user_dream |-> text]

\* Variant: handleSubmit without its setError(null).
Submit_keepsError ==
    /\ FormShown
    /\ ~submitDisabled
    /\ Len(formRequests) < MaxOutstanding
    /\ isLoading' = TRUE
    /\ result' = JsonNull
    /\ formRequests' = Append(formRequests, AnalyzeTriangleRequest(dreamText))
    /\ UNCHANGED <<dreamText, formCaught, formError>>
    /\ UNCHANGED <<hexVars, apiVars, tokenVars, profileVars, quotaVars,
                   moreVars>>

\* handleSubmit up to its await: the enabled submit button is pressed.
Submit ==
    /\ FormShown
    /\ ~submitDisabled
    /\ Len(formRequests) < MaxOutstanding
    /\ formError' = null
    /\ isLoading' = TRUE
    /\ result' = JsonNull
    /\ formRequests' = Append(formRequests, AnalyzeTriangleRequest(dreamText))
    /\ UNCHANGED <<dreamText, formCaught>>
    /\ UNCHANGED <<hexVars, apiVars, tokenVars, profileVars, quotaVars,
                   moreVars>>

\* err.detail || err.message
ShownApiError(err) == IF Truthy(err.detail) THEN err.detail ELSE err.message

RemoveAt(seq, i) == SubSeq(seq, 1, i - 1) \o SubSeq(seq, i + 1, Len(seq))

\* handleSubmit from its await on: the fetch of request i settles, apiFetch
\* returns or throws, and the try, catch and finally blocks run.
AnalysisSettles(i, settled) ==
    /\ i \in DOMAIN formRequests
    /\ LET outcome == apiFetch(settled)
       IN  /\ formCaught' = [kind |-> "awaited", settled |-> settled,
                              outcome |-> outcome]
           /\ IF outcome.kind = "returned"
              THEN /\ result' = outcome.value
                   /\ UNCHANGED formError
              ELSE /\ formError' = IF outcome.error.name = "ApiException"
                                   THEN ShownApiError(outcome.error)
                                   ELSE FallbackMessage
                   /\ UNCHANGED result
    /\ isLoading' = FALSE
    /\ formRequests' = RemoveAt(formRequests, i)
    /\ UNCHANGED dreamText
    /\ UNCHANGED <<hexVars, apiVars, tokenVars, profileVars, quotaVars,
                   moreVars>>

\* handleReset, from the button of the results view.
Reset ==
    /\ ~FormShown
    /\ dreamText' = <<>>
    /\ result' = JsonNull
    /\ formError' = null
    /\ UNCHANGED <<isLoading, formRequests, formCaught>>
    /\ UNCHANGED <<hexVars, apiVars, tokenVars, profileVars, quotaVars,
                   moreVars>>

\* How the fetch of an analysis request can settle.
Settlements == Responses \cup {Rejected(e) : e \in FetchRejections}

InitDreamForm ==
    /\ DreamFormMounted
    /\ HexMounted(<<>>)
    /\ API_SECRET_KEY \in {"", "client-key"}
    /\ ApiIdle
    /\ GetTokenIdle
    /\ ProfilePageMounted(null)
    /\ DatabaseMigrated(1)
    /\ MoreQuiet

NextDreamForm ==
    \/ \E text \in DreamTexts : Type(text)
    \/ Submit
    \/ \E i \in 1..MaxOutstanding, settled \in Settlements :
           AnalysisSettles(i, settled)
    \/ Reset

SpecDreamForm == InitDreamForm /\ [][NextDreamForm]_vars

(***************************************************************************)
(* Properties of DreamForm                                                 *)
(***************************************************************************)
\* The fetch of the last awaited analysis request was rejected.
LastFetchRejected ==
    formCaught.kind = "awaited" /\ formCaught.settled.kind = "failed"

\* C14: a rejected fetch leaves apiFetch and apiFetchWithAuth as the error
\* it was rejected with, which is no ApiException; and DreamForm, having
\* caught it, shows its fallback message and no analysis.
ThmC14_TransportFailure ==
    /\ \A e \in FetchRejections :
          /\ apiFetch(Rejected(e)) = Rethrow(e)
          /\ apiFetchWithAuth(Rejected(e)) = Rethrow(e)
          /\ e.name # "ApiException"
    /\ LastFetchRejected =>
          /\ formCaught.outcome = Rethrow(formCaught.settled.error)
          /\ formCaught.outcome.error.name # "ApiException"
          /\ ~isLoading => (formError = FallbackMessage /\ result = JsonNull)

\* A submission met a rejected fetch and the fallback message is shown.
WitC14_OracleSilent ==
    /\ LastFetchRejected
    /\ ~isLoading
    /\ formRequests = <<>>
    /\ formError = FallbackMessage
    /\ formCaught.outcome.error.name = "TypeError"

\* C16: at most one analysis request is outstanding at any time, and a
\* request is only ever added while isLoading is false and the text has 10
\* characters or more.
ThmC16_SingleOutstanding ==
    /\ [](Len(formRequests) <= 1)
    /\ [][Len(formRequests') > Len(formRequests) =>
             /\ ~isLoading
             /\ Len(dreamText) >= MinDreamLength
             /\ Len(formRequests') = 1]_vars

\* A request is outstanding and the text was shortened to one character
\* while it is.
WitC16_TypedWhileLoading ==
    /\ isLoading
    /\ Len(formRequests) = 1
    /\ Len(formRequests[1].user_dream) = MinDreamLength
    /\ Len(dreamText) = 1

MaxHistoryRuns == 2

SessionExpiredMessage == "Phien dang nhap het han. Vui long dang nhap lai."
HistoryDefaultMessage == "Khong the tai lich su. Vui long thu lai."

\* What getToken() resolves to for the page.
HistoryTokens == {null, "token-1"}

\* Responses of GET /api/dreams/history: a list, an error object with or
\* without detail, a body that is not JSON.
HistoryBodies ==
    {[kind |-> "list", items |-> "dreams-A"], [kind |-> "list", items |-> "dreams-B"],
     [kind |-> "object", detail |-> "text"], [kind |-> "object", detail |-> undefined],
     [kind |-> "text"]}
HistoryResponses ==
    {[kind |-> "response", status |-> st, body |-> b] :
        st \in {200, 401, 500}, b \in HistoryBodies}
HistorySettlements == HistoryResponses \cup {Rejected(e) : e \in FetchRejections}

\* The Error the try block of fetchHistory ends with for a settled fetch
\* (NoSeq when it ends normally): a rejection passes through, an error
\* status throws errorData.detail || `Loi ${status}` with {} for a body that
\* does not parse, and response.json() of a 2xx body may reject.
HistoryThrown(settled) ==
    IF settled.kind = "failed" THEN settled.error.message
    ELSE IF ~ok(settled)
    THEN IF settled.body.kind = "object" /\ Truthy(settled.body.detail)
         THEN settled.body.detail
         ELSE "Loi " \o ToString(settled.status)
    ELSE IF settled.body.kind = "text" THEN "Unexpected token"
    ELSE ""

HistorySucceeds(settled) ==
    settled.kind = "response" /\ ok(settled) /\ settled.body.kind # "text"

\* The synchronous start of fetchHistory, when the effect calls it:
\* nothing without a user; otherwise the spinner is set, the error cleared
\* and getToken() awaited.  Each run carries whether it is the most
\* recently started one.
FetchHistoryStarts(u) ==
    IF u = null
    THEN UNCHANGED <<isLoadingHistory, historyError, historyRuns>>
    ELSE /\ isLoadingHistory' = TRUE
         /\ historyError' = null
         /\ historyRuns' = Append([i \in DOMAIN historyRuns |->
                                      [historyRuns[i] EXCEPT !.latest = FALSE]],
                                  [pc |-> "awaitToken", token |-> null,
                                   latest |-> TRUE])

\* The effect with dependencies [user, activeTab, getToken] runs for the
\* committed tab.
HistoryEffect(u, tab) ==
    IF tab = "history" THEN FetchHistoryStarts(u)
    ELSE UNCHANGED <<isLoadingHistory, historyError, historyRuns>>

\* The auth context delivers the signed-in user: the page renders with a
\* new user and the effect runs.
UserArrives(u) ==
    /\ user = null
    /\ user' = u
    /\ HistoryEffect(u, activeTab)
    /\ UNCHANGED <<activeTab, dreams>>
    /\ UNCHANGED <<hexVars, apiVars, tokenVars, formVars, quotaVars,
                   moreVars>>

\* AuthProvider renders again (a session event): getToken is a new function
\* object, a dependency changed, and the effect runs.
AuthProviderRenders ==
    /\ user # null
    /\ Len(historyRuns) < MaxHistoryRuns
    /\ HistoryEffect(user, activeTab)
    /\ UNCHANGED <<user, activeTab, dreams>>
    /\ UNCHANGED <<hexVars, apiVars, tokenVars, formVars, quotaVars,
                   moreVars>>

\* A tab button: setActiveTab(tab).  The same tab is no state change and no
\* render; another tab is committed and the effect runs.
ClickTab(tab) ==
    /\ user # null
    /\ Len(historyRuns) < MaxHistoryRuns
    /\ activeTab' = tab
    /\ IF tab = activeTab
       THEN UNCHANGED <<isLoadingHistory, historyError, historyRuns>>
       ELSE HistoryEffect(user, tab)
    /\ UNCHANGED <<user, dreams>>
    /\ UNCHANGED <<hexVars, apiVars, tokenVars, formVars, quotaVars,
                   moreVars>>

\* The retry button is rendered in the history tab when nothing is loading
\* and an error is shown.
RetryShown ==
    /\ user # null
    /\ activeTab = "history"
    /\ ~isLoadingHistory
    /\ historyError # null

\* The retry button: setHistoryError(null); setActiveTab("history").  The
\* tab is "history" already, so of the effect's dependencies none changes
\* and the effect does not run.
ClickRetry ==
    /\ RetryShown
    /\ historyError' = null
    /\ activeTab' = "history"
    /\ UNCHANGED <<user, dreams, isLoadingHistory, historyRuns>>
    /\ UNCHANGED <<hexVars, apiVars, tokenVars, formVars, quotaVars,
                   moreVars>>

\* The fetch() call of fetchHistory itself: the page builds the URL and the
\* headers on its own, Authorization and X-API-Key (process.env.
\* NEXT_PUBLIC_API_SECRET || ""), and no Content-Type.
HistoryRequest(token) ==
    [issuer |-> "ProfilePage.fetchHistory",
     endpoint |-> "/api/dreams/history",
     method |-> "GET",
     headers |-> Spread("Authorization" :> ("Bearer " \o token),
                        "X-API-Key" :> (IF Truthy(API_SECRET_KEY)
                                        THEN API_SECRET_KEY ELSE ""))]

\* Variant: fetchHistory without its `if (!token)` return.
HistoryTokenSettles_noTokenCheck(i, token) ==
    /\ i \in DOMAIN historyRuns
    /\ historyRuns[i].pc = "awaitToken"
    /\ historyRuns' = [historyRuns EXCEPT
                          ![i] = [pc |-> "awaitResponse", token |-> token,
                                  request |-> HistoryRequest(token),
                                  latest |-> historyRuns[i].latest]]
    /\ UNCHANGED <<historyError, isLoadingHistory>>
    /\ UNCHANGED <<user, activeTab, dreams>>
    /\ UNCHANGED <<hexVars, apiVars, tokenVars, formVars, quotaVars,
                   moreVars>>

\* getToken() resolves for run i: without a token the error is set and the
\* run ends through finally; with one the request is sent.
HistoryTokenSettles(i, token) ==
    /\ i \in DOMAIN historyRuns
    /\ historyRuns[i].pc = "awaitToken"
    /\ IF ~Truthy(token)
       THEN /\ historyError' = SessionExpiredMessage
            /\ isLoadingHistory' = FALSE
            /\ historyRuns' = RemoveAt(historyRuns, i)
       ELSE /\ historyRuns' = [historyRuns EXCEPT
                                  ![i] = [pc |-> "awaitResponse", token |-> token,
                                          request |-> HistoryRequest(token),
                                          latest |-> historyRuns[i].latest]]
            /\ UNCHANGED <<historyError, isLoadingHistory>>
    /\ UNCHANGED <<user, activeTab, dreams>>
    /\ UNCHANGED <<hexVars, apiVars, tokenVars, formVars, quotaVars,
                   moreVars>>

\* The fetch of run i settles: the list is stored, or the catch block sets
\* error.message || the default message; finally clears the spinner.
HistorySettles(i, settled) ==
    /\ i \in DOMAIN historyRuns
    /\ historyRuns[i].pc = "awaitResponse"
    /\ IF HistorySucceeds(settled)
       THEN /\ dreams' = settled.body
            /\ UNCHANGED historyError
       ELSE /\ historyError' = IF Truthy(HistoryThrown(settled))
                               THEN HistoryThrown(settled)
                               ELSE HistoryDefaultMessage
            /\ UNCHANGED dreams
    /\ isLoadingHistory' = FALSE
    /\ historyRuns' = RemoveAt(historyRuns, i)
    /\ UNCHANGED <<user, activeTab>>
    /\ UNCHANGED <<hexVars, apiVars, tokenVars, formVars, quotaVars,
                   moreVars>>

InitProfilePage ==
    /\ ProfilePageMounted(null)
    /\ HexMounted(<<>>)
    /\ API_SECRET_KEY \in {"", "client-key"} /\ ApiIdle
    /\ GetTokenIdle
    /\ DreamFormMounted
    /\ DatabaseMigrated(1)
    /\ MoreQuiet

NextProfilePage ==
    \/ UserArrives("user-1")
    \/ AuthProviderRenders
    \/ \E tab \in {"history", "settings"} : ClickTab(tab)
    \/ ClickRetry
    \/ \E i \in 1..MaxHistoryRuns, token \in HistoryTokens :
           HistoryTokenSettles(i, token)
    \/ \E i \in 1..MaxHistoryRuns, settled \in HistorySettlements :
           HistorySettles(i, settled)

SpecProfilePage == InitProfilePage /\ [][NextProfilePage]_vars

(***************************************************************************)
(* Properties of ProfilePage                                               *)
(***************************************************************************)
\* C17: whenever the history error is taken off the screen (which is what
\* the retry button does) a new history fetch is started in the same step,
\* so that its response can replace the error with the list.
CexC17_RetryFetches ==
    [][(historyError # null /\ historyError' = null)
          => Len(historyRuns') = Len(historyRuns) + 1]_vars

\* The runs of fetchHistory whose request is on the wire, in order.
HistoryRunsSent == SelectSeq(historyRuns, LAMBDA run : run.pc = "awaitResponse")

\* C24: the step in which a run of fetchHistory gets null from getToken()
\* sends no request (the requests on the wire are what they were, and the
\* run is over), sets historyError to the session-expired message, leaves
\* the dreams list as it was and leaves isLoadingHistory false.
ThmC24_NoTokenNoRequest ==
    [][\A i \in 1..MaxHistoryRuns :
          HistoryTokenSettles(i, null) =>
              /\ HistoryRunsSent' = HistoryRunsSent
              /\ Len(historyRuns') = Len(historyRuns) - 1
              /\ historyError' = SessionExpiredMessage
              /\ dreams' = dreams
              /\ ~isLoadingHistory']_vars

\* A list was loaded earlier; a later fetch found no token: the session
\* message is shown, the list is still there, and nothing is on the wire.
WitC24_ExpiredAfterList ==
    /\ historyError = SessionExpiredMessage
    /\ dreams # <<>>
    /\ ~isLoadingHistory
    /\ historyRuns = <<>>

\* C25: isLoadingHistory is true whenever a history request is on the
\* wire, and the step that completes the last outstanding run changes the
\* dreams list only if that run is the most recently started one.
CexC25_LatestRunWins ==
    /\ [](HistoryRunsSent # <<>> => isLoadingHistory)
    /\ [][(historyRuns # <<>> /\ historyRuns' = <<>> /\ dreams' # dreams)
             => historyRuns[1].latest]_vars

\* The functions of the API client module that call fetch().
ApiClientIssuers == {"apiFetch", "apiFetchWithAuth", "dreamApi.healthCheck"}

\* The history requests of the profile page that are on the wire.
HistoryRequestsInFlight ==
    {historyRuns[i].request :
        i \in {j \in DOMAIN historyRuns : historyRuns[j].pc = "awaitResponse"}}

\* C21: every request the frontend has on the wire to the backend was
\* issued by a function of the API client module (apiFetch,
\* apiFetchWithAuth or dreamApi.healthCheck), the history request of the
\* profile page included.
CexC21_CentralisedFetch ==
    \A request \in HistoryRequestsInFlight : request.issuer \in ApiClientIssuers

(***************************************************************************)
(* Database functions of the migration: guest quota and daily usage        *)
(***************************************************************************)
\* Days followed, and the daily usage up to which members are followed.
MaxDate == 3
MaxDailyUsage == 2

GuestIps == {"10.0.0.1", "10.0.0.2"}
UserIds == {"user-1"}

\* What SELECT ... INTO found for an IP: the row, or NOT FOUND.
GuestRow(table, ip) ==
    IF ip \in DOMAIN table
    THEN [found |-> TRUE, usage_date |-> table[ip].usage_date,
          request_count |-> table[ip].request_count]
    ELSE [found |-> FALSE]

\* INSERT / UPDATE of one row, DELETE of the rows of a set of keys.
Upsert(table, key, row) == (key :> row) @@ table
DeleteRows(table, keys) == [k \in DOMAIN table \ keys |-> table[k]]

\* The table after check_guest_quota(guest_ip), and what it returns.
GuestUsageAfter(table, guest_ip, today) ==
    LET row == GuestRow(table, guest_ip)
    IN  IF ~row.found
        THEN Upsert(table, guest_ip, [usage_date |-> today, request_count |-> 1])
        ELSE IF row.usage_date < today
        THEN Upsert(table, guest_ip, [usage_date |-> today, request_count |-> 1])
        ELSE IF row.request_count < 1
        THEN Upsert(table, guest_ip, [usage_date |-> row.usage_date,
                                      request_count |-> row.request_count + 1])
        ELSE table

GuestQuotaReturns(table, guest_ip, today) ==
    LET row == GuestRow(table, guest_ip)
    IN  \/ ~row.found
        \/ row.usage_date < today
        \/ row.request_count < 1

\* How many calls for (ip, date) have returned TRUE so far.
GrantCount(ip, date) ==
    IF <<ip, date>> \in DOMAIN quotaGranted THEN quotaGranted[<<ip, date>>] ELSE 0

\* check_guest_quota(guest_ip), one transaction.
check_guest_quota(guest_ip) ==
    /\ guest_usage' = GuestUsageAfter(guest_usage, guest_ip, CURRENT_DATE)
    /\ LET returned == GuestQuotaReturns(guest_usage, guest_ip, CURRENT_DATE)
       IN  /\ quotaLast' = [kind |-> "call", ip |-> guest_ip, date |-> CURRENT_DATE,
                             returned |-> returned,
                             before |-> GuestRow(guest_usage, guest_ip),
                             after |-> GuestRow(guest_usage', guest_ip)]
           /\ quotaGranted' =
                 IF returned
                 THEN Upsert(quotaGranted, <<guest_ip, CURRENT_DATE>>,
                             GrantCount(guest_ip, CURRENT_DATE) + 1)
                 ELSE quotaGranted
    /\ UNCHANGED <<CURRENT_DATE, profiles>>
    /\ UNCHANGED <<hexVars, apiVars, tokenVars, formVars, profileVars,
                   moreVars>>

\* handle_new_user(): a profile row for a new user, nothing on conflict.
handle_new_user(id) ==
    /\ id \notin DOMAIN profiles
    /\ profiles' = Upsert(profiles, id,
                          [daily_usage |-> 0, last_reset_date |-> CURRENT_DATE])
    /\ UNCHANGED <<CURRENT_DATE, guest_usage, quotaGranted, quotaLast>>
    /\ UNCHANGED <<hexVars, apiVars, tokenVars, formVars, profileVars,
                   moreVars>>

\* increment_daily_usage(p_user_id)
increment_daily_usage(p_user_id) ==
    /\ p_user_id \in DOMAIN profiles
    /\ profiles[p_user_id].daily_usage < MaxDailyUsage
    /\ profiles' = [profiles EXCEPT ![p_user_id].daily_usage = @ + 1]
    /\ UNCHANGED <<CURRENT_DATE, guest_usage, quotaGranted, quotaLast>>
    /\ UNCHANGED <<hexVars, apiVars, tokenVars, formVars, profileVars,
                   moreVars>>

\* Variant: the reset emptying guest_usage whatever the rows' dates.
reset_daily_usage_deletesAll ==
    /\ profiles' = [id \in DOMAIN profiles |->
                       IF profiles[id].last_reset_date < CURRENT_DATE
                       THEN [daily_usage |-> 0, last_reset_date |-> CURRENT_DATE]
                       ELSE profiles[id]]
    /\ guest_usage' = DeleteRows(guest_usage, DOMAIN guest_usage)
    /\ UNCHANGED <<CURRENT_DATE, quotaGranted, quotaLast>>
    /\ UNCHANGED <<hexVars, apiVars, tokenVars, formVars, profileVars,
                   moreVars>>

\* reset_daily_usage(): members not yet reset today are reset, and the
\* guest rows of earlier days deleted.
reset_daily_usage ==
    /\ profiles' = [id \in DOMAIN profiles |->
                       IF profiles[id].last_reset_date < CURRENT_DATE
                       THEN [daily_usage |-> 0, last_reset_date |-> CURRENT_DATE]
                       ELSE profiles[id]]
    /\ guest_usage' = DeleteRows(guest_usage,
                                 {ip \in DOMAIN guest_usage :
                                     guest_usage[ip].usage_date < CURRENT_DATE})
    /\ UNCHANGED <<CURRENT_DATE, quotaGranted, quotaLast>>
    /\ UNCHANGED <<hexVars, apiVars, tokenVars, formVars, profileVars,
                   moreVars>>

\* Midnight: CURRENT_DATE of the transactions that follow is the next day.
DayPasses ==
    /\ CURRENT_DATE < MaxDate
    /\ CURRENT_DATE' = CURRENT_DATE + 1
    /\ UNCHANGED <<guest_usage, profiles, quotaGranted, quotaLast>>
    /\ UNCHANGED <<hexVars, apiVars, tokenVars, formVars, profileVars,
                   moreVars>>

\* The table is empty after the migration, or holds a row inserted with the
\* column defaults (today's date, request_count 0).
InitDatabase ==
    /\ CURRENT_DATE = 1
    /\ guest_usage \in {<<>>, "10.0.0.1" :> [usage_date |-> 1, request_count |-> 0]}
    /\ profiles = <<>>
    /\ quotaGranted = <<>>
    /\ quotaLast = [kind |-> "none"]
    /\ HexMounted(<<>>)
    /\ API_SECRET_KEY = "" /\ ApiIdle
    /\ GetTokenIdle
    /\ DreamFormMounted
    /\ ProfilePageMounted(null)
    /\ MoreQuiet

NextDatabase ==
    \/ \E guest_ip \in GuestIps : check_guest_quota(guest_ip)
    \/ \E id \in UserIds : handle_new_user(id)
    \/ \E p_user_id \in UserIds : increment_daily_usage(p_user_id)
    \/ reset_daily_usage
    \/ DayPasses

SpecDatabase == InitDatabase /\ [][NextDatabase]_vars

(***************************************************************************)
(* Properties of the guest quota                                           *)
(***************************************************************************)
\* C20: for every IP and date at most one call of check_guest_quota has
\* returned TRUE, whatever resets and days lie between the calls; a call
\* that found no row for its IP, or a row of an earlier date, returned TRUE;
\* and a call that returned FALSE left the row as it found it.
ThmC20_OnePerDay ==
    /\ \A ip \in GuestIps, date \in 1..(MaxDate + 1) : GrantCount(ip, date) <= 1
    /\ quotaLast.kind = "call" =>
          /\ ~quotaLast.before.found => quotaLast.returned
          /\ (quotaLast.before.found /\ quotaLast.before.usage_date < quotaLast.date)
                => quotaLast.returned
          /\ ~quotaLast.returned => quotaLast.after = quotaLast.before

\* An IP was granted on day 1 and on day 2, and refused on day 2 after a
\* reset of that day had left its row in place.
WitC20_RefusedSameDay ==
    /\ CURRENT_DATE = 2
    /\ quotaLast.kind = "call"
    /\ ~quotaLast.returned
    /\ quotaLast.before = [found |-> TRUE, usage_date |-> 2, request_count |-> 1]
    /\ GrantCount(quotaLast.ip, 1) = 1
    /\ GrantCount(quotaLast.ip, 2) = 1

(***************************************************************************)
(* ProfilePage: the password change                                        *)
(***************************************************************************)
\* The length below which the new password is refused.
MinPasswordLength == 6

MismatchMessage == [type |-> "error", text |-> "Mat khau xac nhan khong khop"]
TooShortMessage == [type |-> "error", text |-> "Mat khau moi phai co it nhat 6 ky tu"]
ChangedMessage == [type |-> "success", text |-> "Da doi mat khau thanh cong!"]
ChangeFailedText == "Khong the doi mat khau"

\* Values typed into a password field: nothing, one character short, just
\* long enough (in two spellings), and longer.
PasswordTexts ==
    {Text(0, "a"), Text(MinPasswordLength - 1, "a"), Text(MinPasswordLength, "a"),
     Text(MinPasswordLength, "b"), Text(MinPasswordLength + 1, "a")}

\* What supabase.auth.updateUser() settles with: no error, an error with or
\* without a message, or a thrown exception.
UpdateUserOutcomes ==
    {[kind |-> "ok"],
     [kind |-> "error", message |-> "New password should be different."],
     [kind |-> "error", message |-> ""],
     [kind |-> "throws", message |-> "Failed to fetch"]}

\* Variant: the length checked before the confirmation.
PasswordProblem_lengthFirst(p) ==
    IF Len(p.new) < MinPasswordLength THEN TooShortMessage
    ELSE IF p.new # p.confirm THEN MismatchMessage
    ELSE NoMessage

\* The two checks of handleChangePassword, in their order: the message of
\* the first that fails, none when both pass.
PasswordProblem(p) ==
    IF p.new # p.confirm THEN MismatchMessage
    ELSE IF Len(p.new) < MinPasswordLength THEN TooShortMessage
    ELSE NoMessage

\* disabled={isChangingPassword || !passwords.new || !passwords.confirm}
changePasswordDisabled ==
    isChangingPassword \/ passwords.new = <<>> \/ passwords.confirm = <<>>

\* onChange of the two password inputs: { ...passwords, [field]: value }.
TypePassword(field, value) ==
    /\ passwords' = [passwords EXCEPT ![field] = value]
    /\ UNCHANGED <<isChangingPassword, passwordMessage, updateUserCalls>>
    /\ UNCHANGED <<hexVars, apiVars, coreVars, screenVars, authVars, journalVars>>

\* handleChangePassword up to its await: the message is cleared, then either
\* a check fails and its message is set, or isChangingPassword is set and
\* updateUser({ password: passwords.new }) is called.
ClickChangePassword ==
    /\ ~changePasswordDisabled
    /\ IF PasswordProblem(passwords) # NoMessage
       THEN /\ passwordMessage' = PasswordProblem(passwords)
            /\ UNCHANGED <<isChangingPassword, updateUserCalls>>
       ELSE /\ passwordMessage' = NoMessage
            /\ isChangingPassword' = TRUE
            /\ updateUserCalls' = Append(updateUserCalls,
                                         [password |-> passwords.new])
    /\ UNCHANGED passwords
    /\ UNCHANGED <<hexVars, apiVars, coreVars, screenVars, authVars, journalVars>>

\* handleChangePassword from its await on: without an error the success
\* message is set and the fields cleared; an error is thrown into the catch
\* block, which shows error.message || the default text; finally clears
\* isChangingPassword.
UpdateUserSettles(outcome) ==
    /\ updateUserCalls # <<>>
    /\ IF outcome.kind = "ok"
       THEN /\ passwordMessage' = ChangedMessage
            /\ passwords' = [current |-> <<>>, new |-> <<>>, confirm |-> <<>>]
       ELSE /\ passwordMessage' =
                   [type |-> "error",
                    text |-> IF Truthy(outcome.message) THEN outcome.message
                             ELSE ChangeFailedText]
            /\ UNCHANGED passwords
    /\ isChangingPassword' = FALSE
    /\ updateUserCalls' = Tail(updateUserCalls)
    /\ UNCHANGED <<hexVars, apiVars, coreVars, screenVars, authVars, journalVars>>

InitPasswordForm ==
    /\ PasswordFormMounted
    /\ HexMounted(<<>>)
    /\ API_SECRET_KEY = "" /\ ApiIdle
    /\ CoreQuiet
    /\ AuthScreenMounted
    /\ AuthProviderMounted
    /\ JournalingModalMounted(NoItem)

NextPasswordForm ==
    \/ \E field \in {"new", "confirm"}, value \in PasswordTexts :
           TypePassword(field, value)
    \/ ClickChangePassword
    \/ \E outcome \in UpdateUserOutcomes : UpdateUserSettles(outcome)

SpecPasswordForm == InitPasswordForm /\ [][NextPasswordForm]_vars

(***************************************************************************)
(* Properties of the password change                                       *)
(***************************************************************************)
\* C26: updateUser is called only with a new password that equals the
\* confirmation and has 6 characters or more, and it is given that
\* password; a click on passwords that fail a check sets the error message
\* (the mismatch message when both fail), calls nothing, leaves the fields
\* as they are and leaves isChangingPassword false; a change that succeeds
\* clears all fields, one that fails keeps them.
ThmC26_PasswordValidation ==
    /\ [][updateUserCalls' # updateUserCalls /\ Len(updateUserCalls') > Len(updateUserCalls) =>
             /\ passwords.new = passwords.confirm
             /\ Len(passwords.new) >= MinPasswordLength
             /\ updateUserCalls' = Append(updateUserCalls,
                                          [password |-> passwords.new])]_vars
    /\ [][(ClickChangePassword
             /\ (passwords.new # passwords.confirm
                   \/ Len(passwords.new) < MinPasswordLength)) =>
             /\ passwordMessage' = IF passwords.new # passwords.confirm
                                   THEN MismatchMessage ELSE TooShortMessage
             /\ updateUserCalls' = updateUserCalls
             /\ passwords' = passwords
             /\ ~isChangingPassword /\ ~isChangingPassword']_vars
    /\ [][\A outcome \in UpdateUserOutcomes :
             UpdateUserSettles(outcome) =>
                 passwords' = IF outcome.kind = "ok"
                              THEN [current |-> <<>>, new |-> <<>>, confirm |-> <<>>]
                              ELSE passwords]_vars

\* A password that is too short and does not match its confirmation was
\* refused with the mismatch message, nothing being sent.
WitC26_MismatchBeforeShort ==
    /\ passwordMessage = MismatchMessage
    /\ Len(passwords.new) < MinPasswordLength
    /\ passwords.new # <<>>
    /\ passwords.confirm # passwords.new
    /\ updateUserCalls = <<>>
    /\ ~isChangingPassword

(***************************************************************************)
(* AuthScreen: sign in and sign up                                         *)
(***************************************************************************)
\* minLength of the password input.
ScreenMinLength == 6

AccountCreatedMessage == "Account created! Please check your email to verify."

ScreenEmails == {"", "a@b.co", "c@d.co"}
ScreenPasswords ==
    {Text(0, "p"), Text(ScreenMinLength - 1, "p"), Text(ScreenMinLength, "p")}

\* What signInWithPassword() and signUp() of the identity provider settle
\* with: no error, an error, or a thrown exception.
SignOutcomes ==
    {[kind |-> "ok"],
     [kind |-> "error", message |-> "Invalid login credentials"],
     [kind |-> "throws", message |-> "Failed to fetch"]}

\* signIn and signUp of the AuthProvider: { error } of the provider's
\* answer, and { error } with the exception when the provider throws.  The
\* error is followed by its message (null without an error).
signIn(outcome) == [error |-> IF outcome.kind = "ok" THEN null ELSE outcome.message]
signUp(outcome) == [error |-> IF outcome.kind = "ok" THEN null ELSE outcome.message]

\* The screen is on display until the redirect after a sign-in.
ScreenShown == routerPath = "/auth"

\* The browser lets the form submit when both required inputs are filled
\* and the password has minLength characters, and the button lets it when
\* no submission is under way.
CanSubmit ==
    /\ ~screenLoading
    /\ email # ""
    /\ Len(password) >= ScreenMinLength

\* onChange of the email and password inputs.
TypeEmail(value) ==
    /\ ScreenShown
    /\ email' = value
    /\ UNCHANGED <<password, routerPath, isSignUp, screenLoading, screenError,
                   success, screenCalls>>
    /\ UNCHANGED <<hexVars, apiVars, coreVars, passwordVars, authVars, journalVars>>

TypeScreenPassword(value) ==
    /\ ScreenShown
    /\ password' = value
    /\ UNCHANGED <<email, routerPath, isSignUp, screenLoading, screenError,
                   success, screenCalls>>
    /\ UNCHANGED <<hexVars, apiVars, coreVars, passwordVars, authVars, journalVars>>

\* handleSubmit up to its await: error and success are cleared, isLoading
\* set, and signUp or signIn called as the mode of this render says.
SubmitAuth ==
    /\ ScreenShown
    /\ CanSubmit
    /\ screenError' = null
    /\ success' = null
    /\ screenLoading' = TRUE
    /\ screenCalls' = Append(screenCalls,
                             [fn |-> IF isSignUp THEN "signUp" ELSE "signIn",
                              email |-> email, password |-> password])
    /\ UNCHANGED <<email, password, routerPath, isSignUp>>
    /\ UNCHANGED <<hexVars, apiVars, coreVars, passwordVars, authVars, journalVars>>

\* The mode toggle: setIsSignUp(!isSignUp); setError(null); setSuccess(null).
\* The button is enabled whether or not a submission is under way.
ToggleMode ==
    /\ ScreenShown
    /\ isSignUp' = ~isSignUp
    /\ screenError' = null
    /\ success' = null
    /\ UNCHANGED <<email, password, routerPath, screenLoading, screenCalls>>
    /\ UNCHANGED <<hexVars, apiVars, coreVars, passwordVars, authVars, journalVars>>

\* handleSubmit from its await on, in the branch it entered: the error's
\* message is shown, or the account-created message (sign up) or the
\* redirect home (sign in); finally clears isLoading.  signIn and signUp
\* never throw, so the catch block of handleSubmit is not entered.
AuthCallSettles(outcome) ==
    /\ ScreenShown
    /\ screenCalls # <<>>
    /\ LET call == Head(screenCalls)
           answer == IF call.fn = "signUp" THEN signUp(outcome) ELSE signIn(outcome)
       IN  IF answer.error # null
           THEN /\ screenError' = answer.error
                /\ UNCHANGED <<success, routerPath>>
           ELSE IF call.fn = "signUp"
           THEN /\ success' = AccountCreatedMessage
                /\ UNCHANGED <<screenError, routerPath>>
           ELSE /\ routerPath' = "/"
                /\ UNCHANGED <<screenError, success>>
    /\ screenLoading' = FALSE
    /\ screenCalls' = Tail(screenCalls)
    /\ UNCHANGED <<email, password, isSignUp>>
    /\ UNCHANGED <<hexVars, apiVars, coreVars, passwordVars, authVars, journalVars>>

InitAuthScreen ==
    /\ AuthScreenMounted
    /\ HexMounted(<<>>)
    /\ API_SECRET_KEY = "" /\ ApiIdle
    /\ CoreQuiet
    /\ PasswordFormMounted
    /\ AuthProviderMounted
    /\ JournalingModalMounted(NoItem)

NextAuthScreen ==
    \/ \E value \in ScreenEmails : TypeEmail(value)
    \/ \E value \in ScreenPasswords : TypeScreenPassword(value)
    \/ SubmitAuth
    \/ ToggleMode
    \/ \E outcome \in SignOutcomes : AuthCallSettles(outcome)

SpecAuthScreen == InitAuthScreen /\ [][NextAuthScreen]_vars

(***************************************************************************)
(* Properties of AuthScreen                                                *)
(***************************************************************************)
\* C27: error and success are never both set, and the account-created
\* message is shown only while the form is in sign-up mode.
CexC27_OutcomeMatchesMode ==
    /\ ~(screenError # null /\ success # null)
    /\ success = AccountCreatedMessage => isSignUp

(***************************************************************************)
(* AuthProvider: user, session and isLoading                               *)
(***************************************************************************)
\* Committed renders followed, and signOut() calls awaited at the same time.
MaxAuthCommits == 4
MaxSignOuts == 2

\* Sessions of the identity provider: two of one user (before and after a
\* token refresh) and one of another user.
AuthSessions ==
    {[kind |-> "session", user |-> "user-1", access_token |-> "token-1"],
     [kind |-> "session", user |-> "user-1", access_token |-> "token-2"],
     [kind |-> "session", user |-> "user-2", access_token |-> "token-3"]}

\* session?.user ?? null
SessionUser(s) == IF s = JsonNull THEN null ELSE s.user

\* React commits a render when a state changed: the batch of setState calls
\* of one callback is applied at once.
Commit(u, s, loading) ==
    /\ authUser' = u
    /\ authSession' = s
    /\ authIsLoading' = loading
    /\ authCommits' =
          IF <<u, s, loading>> = <<authUser, authSession, authIsLoading>>
          THEN authCommits
          ELSE Append(authCommits, [user |-> u, session |-> s, isLoading |-> loading])

\* initializeAuth from its await on: getSession() resolves with the initial
\* session (or none) and session and user are set, or it throws and they
\* are left; finally clears isLoading.
InitialSessionSettles(outcome) ==
    /\ authInit = "pending"
    /\ Len(authCommits) < MaxAuthCommits
    /\ authInit' = "done"
    /\ IF outcome.kind = "throws"
       THEN Commit(authUser, authSession, FALSE)
       ELSE Commit(SessionUser(outcome), outcome, FALSE)
    /\ UNCHANGED signOutCalls
    /\ UNCHANGED <<hexVars, apiVars, coreVars, passwordVars, screenVars, journalVars>>

\* The onAuthStateChange callback: setSession(currentSession);
\* setUser(currentSession?.user ?? null); setIsLoading(false).
AuthStateChanges(eventSession) ==
    /\ Len(authCommits) < MaxAuthCommits
    /\ Commit(SessionUser(eventSession), eventSession, FALSE)
    /\ UNCHANGED <<authInit, signOutCalls>>
    /\ UNCHANGED <<hexVars, apiVars, coreVars, passwordVars, screenVars, journalVars>>

\* signOut up to its await of supabase.auth.signOut().
CallSignOut ==
    /\ signOutCalls < MaxSignOuts
    /\ signOutCalls' = signOutCalls + 1
    /\ UNCHANGED <<authUser, authSession, authIsLoading, authInit, authCommits>>
    /\ UNCHANGED <<hexVars, apiVars, coreVars, passwordVars, screenVars, journalVars>>

\* Variant: signOut clearing the user and leaving the session.
SignOutSettles_userOnly(outcome) ==
    /\ signOutCalls > 0
    /\ Len(authCommits) < MaxAuthCommits
    /\ signOutCalls' = signOutCalls - 1
    /\ IF outcome.kind = "throws"
       THEN Commit(authUser, authSession, authIsLoading)
       ELSE Commit(null, authSession, authIsLoading)
    /\ UNCHANGED authInit
    /\ UNCHANGED <<hexVars, apiVars, coreVars, passwordVars, screenVars, journalVars>>

\* signOut from its await on: when the provider's signOut() resolves (with
\* or without an error) setUser(null); setSession(null); when it throws the
\* catch block only logs.
SignOutSettles(outcome) ==
    /\ signOutCalls > 0
    /\ Len(authCommits) < MaxAuthCommits
    /\ signOutCalls' = signOutCalls - 1
    /\ IF outcome.kind = "throws"
       THEN Commit(authUser, authSession, authIsLoading)
       ELSE Commit(null, JsonNull, authIsLoading)
    /\ UNCHANGED authInit
    /\ UNCHANGED <<hexVars, apiVars, coreVars, passwordVars, screenVars, journalVars>>

InitAuthProvider ==
    /\ AuthProviderMounted
    /\ HexMounted(<<>>)
    /\ API_SECRET_KEY = "" /\ ApiIdle
    /\ CoreQuiet
    /\ PasswordFormMounted
    /\ AuthScreenMounted
    /\ JournalingModalMounted(NoItem)

NextAuthProvider ==
    \/ \E outcome \in AuthSessions \cup {JsonNull, [kind |-> "throws"]} :
           InitialSessionSettles(outcome)
    \/ \E eventSession \in AuthSessions \cup {JsonNull} :
           AuthStateChanges(eventSession)
    \/ CallSignOut
    \/ \E outcome \in {[kind |-> "ok"], [kind |-> "error"], [kind |-> "throws"]} :
           SignOutSettles(outcome)

SpecAuthProvider == InitAuthProvider /\ [][NextAuthProvider]_vars

(***************************************************************************)
(* Properties of AuthProvider                                              *)
(***************************************************************************)
\* C28: in every committed state user is the held session's user, and null
\* exactly when session is null; once initializeAuth has ended or an
\* auth-state-change event was handled isLoading is false, and it never
\* becomes true again.
ThmC28_AuthContextConsistent ==
    /\ [](authUser = SessionUser(authSession))
    /\ [](authUser = null <=> authSession = JsonNull)
    /\ [](\A i \in DOMAIN authCommits :
            authCommits[i].user = null <=> authCommits[i].session = JsonNull)
    /\ [](authInit = "done" => ~authIsLoading)
    /\ [][\A eventSession \in AuthSessions \cup {JsonNull} :
             AuthStateChanges(eventSession) => ~authIsLoading']_vars
    /\ [][~authIsLoading => ~authIsLoading']_vars

\* An event delivered the session of one user before the initial load
\* ended; the initial load then set the session of another user, and a
\* signOut cleared both.
WitC28_EventLoadSignOut ==
    /\ Len(authCommits) = 4
    /\ authCommits[2].user = "user-2" /\ ~authCommits[2].isLoading
    /\ authCommits[3].user = "user-1"
    /\ authCommits[3].session.access_token = "token-1"
    /\ authInit = "done"
    /\ authUser = null /\ authSession = JsonNull /\ ~authIsLoading
    /\ signOutCalls = 0

(***************************************************************************)
(* JournalingModal: the journal in localStorage                            *)
(***************************************************************************)
\* The trimmed length below which the save button is disabled.
MinJournalLength == 10

\* Entries stored, clock readings and pending timeouts up to which the
\* modal is followed.
MaxJournalEntries == 3
MaxJournalClock == 1
MaxJournalTimers == 2

WhiteSpace == {" ", "\n", "\t"}

\* String.prototype.trim(): white space taken off both ends.
RECURSIVE TrimStart(_)
TrimStart(chars) ==
    IF chars # <<>> /\ Head(chars) \in WhiteSpace THEN TrimStart(Tail(chars))
    ELSE chars

RECURSIVE TrimEnd(_)
TrimEnd(chars) ==
    IF chars # <<>> /\ chars[Len(chars)] \in WhiteSpace
    THEN TrimEnd(SubSeq(chars, 1, Len(chars) - 1))
    ELSE chars

Trim(chars) == TrimEnd(TrimStart(chars))

\* Values typed into the textarea: nothing, one letter short, long enough,
\* long enough only with the blanks around it, blanks only, and long enough
\* after a leading line break.
JournalTexts ==
    {Text(0, "w"),
     Text(MinJournalLength - 1, "w"),
     Text(MinJournalLength, "w"),
     <<" ">> \o Text(MinJournalLength - 1, "w") \o <<" ">>,
     Text(MinJournalLength, " "),
     <<"\n">> \o Text(MinJournalLength, "w")}

\* Analyses whose exercise and therapy type the modal is given as props.
JournalAnalyses ==
    {[kind |-> "object",
      analysis |-> [psychology |-> [actionable_exercise |-> x, therapy_type |-> t]]] :
        x \in {"Write a letter to the dream."}, t \in {"CBT", "Jungian"}}

\* prompt={result.analysis.psychology.actionable_exercise}
\* therapyType={result.analysis.psychology.therapy_type}
JournalProps ==
    [prompt      |-> result.analysis.psychology.actionable_exercise,
     therapyType |-> result.analysis.psychology.therapy_type]

\* new Date().toISOString()
ToISOString(clock) == "2026-01-01T00:00:0" \o ToString(clock) \o ".000Z"

\* JSON.stringify of the entries: a property whose value is undefined is
\* left out of its object.  timestamp and entry are strings whatever the
\* props are; the two props are what the caller passed.
StringifyEntry(e) ==
    [k \in {f \in DOMAIN e : f \in {"therapyType", "prompt"} => e[f] # undefined}
        |-> e[k]]
JSONstringify(entries) ==
    [kind |-> "text", json |-> [i \in DOMAIN entries |-> StringifyEntry(entries[i])]]

\* JSON.parse(localStorage.getItem("dreamJournal") || "[]")
JSONparse(item) == IF item.kind = "absent" THEN <<>> ELSE item.json

\* Variant: the button disabled by the untrimmed length.
saveDisabled_untrimmed == Len(journalText) < MinJournalLength

\* disabled={text.trim().length < 10}
saveDisabled == Len(Trim(journalText)) < MinJournalLength

\* The journaling button of the results view opens the modal.
OpenJournal ==
    /\ ~isJournalingOpen
    /\ isJournalingOpen' = TRUE
    /\ UNCHANGED <<journalText, isSaved, dreamJournal, journalTimers, journalClock>>
    /\ UNCHANGED <<hexVars, apiVars, coreVars, passwordVars, screenVars, authVars>>

\* onClose from the backdrop, the X and the later button; the text stays.
CloseJournal ==
    /\ isJournalingOpen
    /\ isJournalingOpen' = FALSE
    /\ UNCHANGED <<journalText, isSaved, dreamJournal, journalTimers, journalClock>>
    /\ UNCHANGED <<hexVars, apiVars, coreVars, passwordVars, screenVars, authVars>>

\* onChange of the textarea.
TypeJournal(value) ==
    /\ isJournalingOpen
    /\ journalText' = value
    /\ UNCHANGED <<isSaved, isJournalingOpen, dreamJournal, journalTimers, journalClock>>
    /\ UNCHANGED <<hexVars, apiVars, coreVars, passwordVars, screenVars, authVars>>

\* handleSave, from the enabled save button (which the saved mark does not
\* disable): the stored list is parsed, the entry pushed, the list stored,
\* the saved mark set and the timeout started.
handleSave ==
    /\ isJournalingOpen
    /\ ~saveDisabled
    /\ Len(JSONparse(dreamJournal)) < MaxJournalEntries
    /\ journalTimers < MaxJournalTimers
    /\ LET journalEntries == JSONparse(dreamJournal)
           pushed == Append(journalEntries,
                            [timestamp   |-> ToISOString(journalClock),
                             therapyType |-> JournalProps.therapyType,
                             prompt      |-> JournalProps.prompt,
                             entry       |-> journalText])
       IN  dreamJournal' = JSONstringify(pushed)
    /\ isSaved' = TRUE
    /\ journalTimers' = journalTimers + 1
    /\ UNCHANGED <<journalText, isJournalingOpen, journalClock>>
    /\ UNCHANGED <<hexVars, apiVars, coreVars, passwordVars, screenVars, authVars>>

\* The timeout of handleSave: setIsSaved(false); onClose(); setText("").
SaveTimeout ==
    /\ journalTimers > 0
    /\ journalTimers' = journalTimers - 1
    /\ isSaved' = FALSE
    /\ isJournalingOpen' = FALSE
    /\ journalText' = <<>>
    /\ UNCHANGED <<dreamJournal, journalClock>>
    /\ UNCHANGED <<hexVars, apiVars, coreVars, passwordVars, screenVars, authVars>>

\* Time passes.
ClockTicks ==
    /\ journalClock < MaxJournalClock
    /\ journalClock' = journalClock + 1
    /\ UNCHANGED <<journalText, isSaved, isJournalingOpen, dreamJournal, journalTimers>>
    /\ UNCHANGED <<hexVars, apiVars, coreVars, passwordVars, screenVars, authVars>>

\* An entry kept from an earlier visit.
EarlierEntry ==
    [timestamp |-> "2025-12-31T23:59:59.000Z", therapyType |-> "Gestalt",
     prompt |-> "Speak as the river.", entry |-> Text(MinJournalLength + 1, "o")]

\* The results view of DreamForm shows an analysis; the modal is mounted and
\* closed; the journal is absent or holds what an earlier visit stored.
InitJournal ==
    /\ JournalingModalMounted(NoItem) \/ JournalingModalMounted(JSONstringify(<<EarlierEntry>>))
    /\ result \in JournalAnalyses
    /\ dreamText = <<>> /\ isLoading = FALSE /\ formError = null
    /\ formRequests = <<>> /\ formCaught = [kind |-> "none"]
    /\ HexMounted(<<>>)
    /\ API_SECRET_KEY = "" /\ ApiIdle
    /\ GetTokenIdle
    /\ ProfilePageMounted(null)
    /\ DatabaseMigrated(1)
    /\ PasswordFormMounted
    /\ AuthScreenMounted
    /\ AuthProviderMounted

NextJournal ==
    \/ OpenJournal
    \/ CloseJournal
    \/ \E value \in JournalTexts : TypeJournal(value)
    \/ handleSave
    \/ SaveTimeout
    \/ ClockTicks

SpecJournal == InitJournal /\ [][NextJournal]_vars

(***************************************************************************)
(* Properties of JournalingModal                                           *)
(***************************************************************************)
\* C29: whenever the item stored under "dreamJournal" changes, the new list
\* is the old list, entry for entry and in order, with exactly one entry
\* after it, made of the timestamp, the therapy type, the prompt and the
\* text as typed, and the trimmed text has 10 characters or more; and
\* every save changes the item in this way.
ThmC29_JournalAppendOnly ==
    /\ [][dreamJournal' # dreamJournal =>
             LET before == JSONparse(dreamJournal)
                 after == JSONparse(dreamJournal')
             IN  /\ Len(after) = Len(before) + 1
                 /\ SubSeq(after, 1, Len(before)) = before
                 /\ after[Len(after)] =
                        [timestamp   |-> ToISOString(journalClock),
                         therapyType |-> JournalProps.therapyType,
                         prompt      |-> JournalProps.prompt,
                         entry       |-> journalText]
                 /\ Len(Trim(journalText)) >= MinJournalLength]_vars
    /\ [][handleSave =>
             Len(JSONparse(dreamJournal')) = Len(JSONparse(dreamJournal)) + 1]_vars

\* Two entries were saved after the one an earlier visit left, the second
\* with a text that is long enough only once its line break is trimmed.
WitC29_ThreeEntries ==
    /\ Len(JSONparse(dreamJournal)) = 3
    /\ JSONparse(dreamJournal)[1] = EarlierEntry
    /\ JSONparse(dreamJournal)[2].entry = Text(MinJournalLength, "w")
    /\ JSONparse(dreamJournal)[3].entry = <<"\n">> \o Text(MinJournalLength, "w")
    /\ JSONparse(dreamJournal)[3].timestamp = ToISOString(1)
====
